---- MODULE Spec2Model ----
(***************************************************************************)
(* Model of the command executor of Pseudo-Developer                       *)
(* (src/src/command_executor.py, class CommandExecutor).                   *)
(*                                                                         *)
(* Text is modelled character by character: a string is a sequence of      *)
(* one-character strings (the null byte is the token "NUL", a line feed    *)
(* the token "LF").  Paths follow the rules of Python's ntpath, the        *)
(* os.path of the platform the executor is written for (PowerShell, drive  *)
(* letters, the expectations of tests/test_chat.py::test_path_security).   *)
(***************************************************************************)
EXTENDS Integers, Sequences, FiniteSets, TLC

VARIABLES
    project_dir,         \* CommandExecutor.project_dir: a string, or None
    powershell_process,  \* CommandExecutor.powershell_process: index into procs, or 0 (None)
    procs,               \* every shell process started so far, in start order
    cwd,                 \* working directory of the host process (os.getcwd())
    files,               \* filesystem: resolved location of each existing file -> content
    dirs,                \* filesystem: resolved locations of the existing directories
    pc,                  \* "idle", or "reading" while execute_command blocks in its read loop
    rd,                  \* locals of the read loop (output, error, in_output, in_error)
    last,                \* the last call made on the executor: its arguments and outcome
    batch,               \* the execute_commands call in progress: list, position, results
    chat                 \* the ChatWindow: its project_dir and its message_history

vars == <<project_dir, powershell_process, procs, cwd, files, dirs, pc, rd, last, batch, chat>>

\* Python's None, kept apart from every string (no string holds this token)
None == <<"None">>

\* no execute_commands call is in progress
NoBatch == [phase |-> "none"]

\* ChatWindow.__init__: an empty history, no project directory
ChatStart == [project_dir |-> None, message_history |-> << >>]

(***************************************************************************)
(* Characters and strings                                                  *)
(***************************************************************************)
BSL == "\\"
DQ == "\""
SQ == "'"
SP == " "
LF == "LF"
NUL == "NUL"
EmptyStr == << >>

UpperLetters == <<"A","B","C","D","E","F","G","H","I","J","K","L","M",
                  "N","O","P","Q","R","S","T","U","V","W","X","Y","Z">>
LowerLetters == <<"a","b","c","d","e","f","g","h","i","j","k","l","m",
                  "n","o","p","q","r","s","t","u","v","w","x","y","z">>

\* str.lower() on one character
LowerChar(c) ==
    IF \E i \in 1..26 : UpperLetters[i] = c
    THEN LowerLetters[CHOOSE i \in 1..26 : UpperLetters[i] = c]
    ELSE c

\* str.lower()
Lower(s) == [i \in 1..Len(s) |-> LowerChar(s[i])]

\* the characters str.split() and str.strip() treat as whitespace
IsSpace(c) == c \in {SP, LF, "TAB"}

\* s[i:] (1-based, i may exceed the length)
Drop(s, i) == IF i > Len(s) THEN EmptyStr ELSE SubSeq(s, i, Len(s))

\* s[:n]
Take(s, n) == IF n >= Len(s) THEN s ELSE SubSeq(s, 1, n)

\* s.startswith(t)
StartsWith(s, t) == Len(t) <= Len(s) /\ SubSeq(s, 1, Len(t)) = t

\* s.endswith(t)
EndsWith(s, t) == Len(t) <= Len(s) /\ SubSeq(s, Len(s) - Len(t) + 1, Len(s)) = t

\* t occurs in s at 1-based position i
OccursAt(s, t, i) == i >= 1 /\ i + Len(t) - 1 <= Len(s) /\ SubSeq(s, i, i + Len(t) - 1) = t

\* t in s
Contains(s, t) == \E i \in 1..(Len(s) + 1) : OccursAt(s, t, i)

\* s.find(t) + 1 (0 when t does not occur): 1-based position of the first occurrence
Find(s, t) ==
    IF Contains(s, t)
    THEN CHOOSE i \in 1..(Len(s) + 1) :
            OccursAt(s, t, i) /\ \A j \in 1..(i - 1) : ~OccursAt(s, t, j)
    ELSE 0

\* s.rfind(t) + 1 (0 when t does not occur): 1-based position of the last occurrence
RFind(s, t) ==
    IF Contains(s, t)
    THEN CHOOSE i \in 1..(Len(s) + 1) :
            OccursAt(s, t, i) /\ \A j \in (i + 1)..(Len(s) + 1) : ~OccursAt(s, t, j)
    ELSE 0

\* s.lstrip(chars) / s.rstrip(chars) / s.strip(chars), chars a set of characters
LStripSet(s, cs) ==
    LET kept == {i \in 1..Len(s) : s[i] \notin cs}
    IN  IF kept = {} THEN EmptyStr
        ELSE SubSeq(s, CHOOSE i \in kept : \A j \in kept : i <= j, Len(s))

RStripSet(s, cs) ==
    LET kept == {i \in 1..Len(s) : s[i] \notin cs}
    IN  IF kept = {} THEN EmptyStr
        ELSE SubSeq(s, 1, CHOOSE i \in kept : \A j \in kept : j <= i)

StripSet(s, cs) == RStripSet(LStripSet(s, cs), cs)

\* s.strip()
Strip(s) == StripSet(s, {SP, LF, "TAB"})

\* s.strip('"\'')
StripQuotes(s) == StripSet(s, {DQ, SQ})

\* s.split(): the maximal runs of non-whitespace characters, in order
\* the k-th smallest element of a set of positions
Nth(S, k) == CHOOSE i \in S : Cardinality({j \in S : j < i}) = k - 1

Split(s) ==
    LET starts == {i \in 1..Len(s) : ~IsSpace(s[i]) /\ (i = 1 \/ IsSpace(s[i - 1]))}
        ends == {i \in 1..Len(s) : ~IsSpace(s[i]) /\ (i = Len(s) \/ IsSpace(s[i + 1]))}
    IN  [k \in 1..Cardinality(starts) |-> SubSeq(s, Nth(starts, k), Nth(ends, k))]

\* sep.join(parts)
RECURSIVE JoinWith(_, _)
JoinWith(parts, sep) ==
    IF parts = << >> THEN EmptyStr
    ELSE IF Len(parts) = 1 THEN parts[1]
    ELSE parts[1] \o sep \o JoinWith(Tail(parts), sep)

(***************************************************************************)
(* ntpath: the os.path functions is_path_in_project calls                  *)
(***************************************************************************)
IsSep(c) == c \in {"/", BSL}

\* ntpath.splitdrive, for drive-letter paths: <<drive, rest>>
splitdrive(p) ==
    IF Len(p) >= 2 /\ p[2] = ":" THEN <<SubSeq(p, 1, 2), Drop(p, 3)>> ELSE <<EmptyStr, p>>

\* ntpath.isabs: the part after the drive starts with a separator
isabs(p) ==
    LET rest == splitdrive(p)[2] IN rest # EmptyStr /\ IsSep(rest[1])

\* ntpath.join(a, p) for two components
join(a, p) ==
    LET ad == splitdrive(a)[1]
        ap == splitdrive(a)[2]
        pd == splitdrive(p)[1]
        pp == splitdrive(p)[2]
        glue == IF ap # EmptyStr /\ ~IsSep(ap[Len(ap)]) THEN <<BSL>> ELSE EmptyStr
    IN  IF pp # EmptyStr /\ IsSep(pp[1])
        THEN (IF pd # EmptyStr \/ ad = EmptyStr THEN pd ELSE ad) \o pp
        ELSE IF pd # EmptyStr /\ pd # ad /\ Lower(pd) # Lower(ad)
        THEN pd \o pp
        ELSE (IF pd # EmptyStr /\ pd # ad THEN pd ELSE ad) \o ap \o glue \o pp

\* rest.split(sep) with both separators, empty components dropped
RECURSIVE SplitSep(_, _, _)
SplitSep(s, cur, acc) ==
    IF s = EmptyStr
    THEN IF cur = EmptyStr THEN acc ELSE Append(acc, cur)
    ELSE IF IsSep(s[1])
         THEN SplitSep(Tail(s), EmptyStr, IF cur = EmptyStr THEN acc ELSE Append(acc, cur))
         ELSE SplitSep(Tail(s), Append(cur, s[1]), acc)

\* ntpath.normpath on the components of a rooted path: "." is dropped, ".."
\* removes the component before it and is dropped at the root
RECURSIVE NormComps(_, _)
NormComps(comps, acc) ==
    IF comps = << >> THEN acc
    ELSE IF comps[1] = <<".">> THEN NormComps(Tail(comps), acc)
    ELSE IF comps[1] = <<".", ".">>
         THEN NormComps(Tail(comps), IF acc = << >> THEN acc ELSE SubSeq(acc, 1, Len(acc) - 1))
    ELSE NormComps(Tail(comps), Append(acc, comps[1]))

\* ntpath.abspath(p), resolved against the working directory wd: the drive
\* and the normalised components of the full path
abspath(p, wd) ==
    LET pd == splitdrive(p)[1]
        pp == splitdrive(p)[2]
        wdrive == splitdrive(wd)[1]
        wcomps == SplitSep(splitdrive(wd)[2], EmptyStr, << >>)
        rooted == pp # EmptyStr /\ IsSep(pp[1])
        drive == IF pd # EmptyStr THEN pd ELSE wdrive
        base == IF rooted THEN << >>
                ELSE IF pd = EmptyStr \/ Lower(pd) = Lower(wdrive) THEN wcomps
                ELSE << >>
    IN  [drive |-> drive, comps |-> NormComps(base \o SplitSep(pp, EmptyStr, << >>), << >>)]

\* ntpath.normcase on a component list
NormCaseComps(comps) == [i \in 1..Len(comps) |-> Lower(comps[i])]

\* length of the common prefix of two component lists, compared by normcase
RECURSIVE CommonLen(_, _)
CommonLen(a, b) ==
    IF a = << >> \/ b = << >> \/ Lower(a[1]) # Lower(b[1]) THEN 0
    ELSE 1 + CommonLen(Tail(a), Tail(b))

ValueError == <<"ValueError">>

\* ntpath.relpath(path, start) on two absolute paths: ValueError across
\* drives, else the ".." steps out of start followed by the rest of path
relpath(path, start) ==
    IF Lower(path.drive) # Lower(start.drive) THEN ValueError
    ELSE LET i == CommonLen(start.comps, path.comps)
             ups == [k \in 1..(Len(start.comps) - i) |-> <<".", ".">>]
             rel == ups \o Drop(path.comps, i + 1)
         IN  IF rel = << >> THEN <<".">> ELSE JoinWith(rel, <<BSL>>)

\* `not self.project_dir`: None and the empty string both count as unset
NoRoot == project_dir = None \/ project_dir = EmptyStr

\* lines 82-86: an absolute path is taken as it is, a relative one is joined
\* to the project directory first
resolve_from_cwd(path) == abspath(path, cwd)
resolve(path) ==
    IF isabs(path) THEN abspath(path, cwd) ELSE abspath(join(project_dir, path), cwd)

\* line 94: rel_path.startswith('..') or path.startswith('~')
blocked_only_tilde(rel_path, path) == StartsWith(path, <<"~">>)
blocked_only_dots(rel_path, path) == StartsWith(rel_path, <<".", ".">>)
blocked(rel_path, path) ==
    StartsWith(rel_path, <<".", ".">>) \/ StartsWith(path, <<"~">>)

\* CommandExecutor.is_path_in_project
is_path_in_project(path) ==
    IF NoRoot THEN FALSE
    ELSE IF Contains(path, <<NUL>>) THEN FALSE
    ELSE LET abs_path == resolve(path)
             project_path == abspath(project_dir, cwd)
             rel_path == relpath(abs_path, project_path)
         IN  IF rel_path = ValueError THEN FALSE
             ELSE IF blocked(rel_path, path) THEN FALSE
             ELSE TRUE

(***************************************************************************)
(* The command safety classifier                                           *)
(***************************************************************************)
W_dir == <<"d","i","r">>
W_type == <<"t","y","p","e">>
W_move == <<"m","o","v","e">>
W_ren == <<"r","e","n">>
W_rename == <<"r","e","n","a","m","e">>
W_del == <<"d","e","l">>
W_rm == <<"r","m">>
W_rmdir == <<"r","m","d","i","r">>
W_rd == <<"r","d">>
W_format == <<"f","o","r","m","a","t">>
W_add_content == <<"a","d","d","-","c","o","n","t","e","n","t">>
W_set_content == <<"s","e","t","-","c","o","n","t","e","n","t">>
W_new_item == <<"n","e","w","-","i","t","e","m">>
W_Path == <<"-","P","a","t","h">>

\* line 119: command.lower().split()
cmd_parts_not_lowered(command) == Split(command)
cmd_parts(command) == Split(Lower(command))

\* line 124
dangerous_commands == {W_format}

\* line 129: '..' in command or '~' in command
navigates_only_dots(command) == Contains(command, <<".", ".">>)
navigates_outside(command) ==
    Contains(command, <<".", ".">>) \/ Contains(command, <<"~">>)

\* lines 133-143: the verbs that need only path validation
safe_commands ==
    {W_dir, W_type, W_move, W_ren, W_rename, W_del, W_rm, W_rmdir, W_rd}

\* lines 133-143: the argument count declared for each of them
expected_args_one(verb) == 1
expected_args(verb) == IF verb \in {W_move, W_ren, W_rename} THEN 2 ELSE 1

\* end (1-based, inclusive) of the run of non-whitespace characters starting at i
RECURSIVE RunEnd(_, _)
RunEnd(s, i) == IF i < Len(s) /\ ~IsSpace(s[i + 1]) THEN RunEnd(s, i + 1) ELSE i

\* first position at or after i that holds no whitespace (Len(s) + 1 if none)
RECURSIVE SkipSpace(_, _)
SkipSpace(s, i) == IF i <= Len(s) /\ IsSpace(s[i]) THEN SkipSpace(s, i + 1) ELSE i

\* re.search(r'-Path\s+([^\s]+)', command) matches with `-Path` at position i
PathFlagAt(command, i) ==
    /\ OccursAt(command, W_Path, i)
    /\ i + 5 <= Len(command) /\ IsSpace(command[i + 5])
    /\ SkipSpace(command, i + 5) <= Len(command)

\* re.search(r'-Path\s+([^\s]+)', command): group 1 of the leftmost match,
\* or None when the pattern matches nowhere
path_match(command) ==
    IF \E i \in 1..Len(command) : PathFlagAt(command, i)
    THEN LET i == CHOOSE k \in 1..Len(command) :
                    PathFlagAt(command, k) /\ \A j \in 1..(k - 1) : ~PathFlagAt(command, j)
             b == SkipSpace(command, i + 5)
         IN  SubSeq(command, b, RunEnd(command, b))
    ELSE None

\* lines 171-178: every token holding a colon must be a path inside the project
colon_tokens_in_project(command) ==
    \A k \in 1..Len(Split(command)) :
        Contains(Split(command)[k], <<":">>)
            => is_path_in_project(StripQuotes(Split(command)[k]))

\* CommandExecutor.is_safe_command
is_safe_command(command) ==
    LET parts == cmd_parts(command) IN
    IF NoRoot THEN FALSE
    ELSE IF parts = << >> THEN FALSE
    ELSE IF parts[1] \in dangerous_commands THEN FALSE
    ELSE IF navigates_outside(command) THEN FALSE
    ELSE IF parts[1] \in safe_commands
         THEN IF Len(parts) = 1 /\ parts[1] = W_dir THEN TRUE
              ELSE IF Len(parts) < expected_args(parts[1]) + 1 THEN FALSE
              ELSE \A i \in 1..expected_args(parts[1]) :
                      i + 1 <= Len(parts) => is_path_in_project(StripQuotes(parts[i + 1]))
    ELSE IF parts[1] \in {W_add_content, W_set_content, W_new_item}
            /\ path_match(command) # None
         THEN is_path_in_project(StripQuotes(path_match(command)))
    ELSE colon_tokens_in_project(command)

(***************************************************************************)
(* The filesystem and the safe file operations                             *)
(***************************************************************************)
\* the place a path names when it is resolved from the directory wd; the
\* filesystem compares names without regard to case
LocFrom(p, wd) ==
    LET ap == abspath(p, wd)
    IN  [drive |-> Lower(ap.drive), comps |-> NormCaseComps(ap.comps)]

\* the place open(), os.makedirs() and shutil.copy2() reach for a path: the
\* operating system resolves a relative path from the process's working directory
OpenLoc(p) == LocFrom(p, cwd)

\* os.path.dirname of a location, and all the directories above a location
ParentLoc(loc) ==
    [drive |-> loc.drive,
     comps |-> IF loc.comps = << >> THEN << >> ELSE SubSeq(loc.comps, 1, Len(loc.comps) - 1)]

AncestorLocs(loc) ==
    {[drive |-> loc.drive, comps |-> SubSeq(loc.comps, 1, k)] : k \in 0..(Len(loc.comps) - 1)}

CHUNK_SIZE == 8192

\* characters that text mode treats specially: the carriage return, and a
\* lone surrogate code point, which the utf-8 codec refuses to encode
CR == "CR"
Surrogate == "U+D800"

\* os.linesep of the platform the session's shell belongs to
linesep == <<CR, LF>>

\* open(filepath, 'w', encoding='utf-8') (line 201): what f.write stores for
\* a text, every '\n' becoming os.linesep
RECURSIVE text_write(_)
text_write(s) ==
    IF s = EmptyStr THEN EmptyStr
    ELSE (IF s[1] = LF THEN linesep ELSE <<s[1]>>) \o text_write(Tail(s))

\* open(filepath, 'r', encoding='utf-8') (line 228): what f.read yields for
\* the stored data, '\r\n' and a lone '\r' both becoming '\n'
RECURSIVE text_read(_)
text_read(data) ==
    IF data = EmptyStr THEN EmptyStr
    ELSE IF data[1] = CR
    THEN <<LF>> \o text_read(IF Len(data) > 1 /\ data[2] = LF
                             THEN Tail(Tail(data)) ELSE Tail(data))
    ELSE <<data[1]>> \o text_read(Tail(data))

\* f.write(chunk) raises UnicodeEncodeError on a chunk the codec cannot encode
encodable(chunk) == \A k \in 1..Len(chunk) : chunk[k] # Surrogate

\* content[start:start + size]
Chunk(content, start, size) ==
    SubSeq(content, start + 1,
           IF start + size < Len(content) THEN start + size ELSE Len(content))

\* lines 203-207 for a chunk size: the chunks content[start:start + size]
\* written one after the other until content is used up or a write raises
RECURSIVE WrittenChunksOf(_, _, _)
WrittenChunksOf(content, start, size) ==
    IF start < Len(content) /\ encodable(Chunk(content, start, size))
    THEN Chunk(content, start, size) \o WrittenChunksOf(content, start + size, size)
    ELSE EmptyStr

\* lines 203-207: the chunks content[start:start + CHUNK_SIZE], concatenated
\* in the order they are written
WrittenChunks(content, start) == WrittenChunksOf(content, start, CHUNK_SIZE)

\* lines 229-234 for a chunk size: f.read(size) until it yields '', the
\* chunks joined
RECURSIVE ReadChunksOf(_, _, _)
ReadChunksOf(text, start, size) ==
    IF Chunk(text, start, size) = EmptyStr THEN EmptyStr
    ELSE Chunk(text, start, size) \o ReadChunksOf(text, start + size, size)

ReadChunks(text) == ReadChunksOf(text, 0, CHUNK_SIZE)

\* the messages returned; each is written as one token (their text is not
\* taken apart anywhere), OsErrorMsg standing for the str(e) of an OSError
OutsideMsg == <<"File path is outside project directory">>
OutsideCopyMsg == <<"Source or destination path is outside project directory">>
OsErrorMsg == <<"str(e)">>

\* lines 193-194 (and 223-224, 249-250): the confinement check that guards
\* each file operation
write_guard_skipped(filepath) == TRUE
write_guard(filepath) == is_path_in_project(filepath)

\* line 201: open(filepath, 'w') truncates: of what the file held and what
\* is written to it, the file keeps the second
opened_a(held, written) == held \o written
opened_w(held, written) == written

\* CommandExecutor.safe_write_file: the result, the filesystem it leaves and
\* the places it opened
safe_write_file(filepath, content) ==
    LET target == OpenLoc(filepath)
        above == AncestorLocs(target)
    IN  IF ~write_guard(filepath)
        THEN [success |-> FALSE, error |-> OutsideMsg,
              files |-> files, dirs |-> dirs, opened |-> {}]
        ELSE IF \E d \in above : d \in DOMAIN files
        THEN \* os.makedirs fails on a file in the way
             [success |-> FALSE, error |-> OsErrorMsg,
              files |-> files, dirs |-> dirs, opened |-> {}]
        ELSE IF target \in dirs
        THEN \* open() fails on a directory; the directories above it are made
             [success |-> FALSE, error |-> OsErrorMsg,
              files |-> files, dirs |-> dirs \cup above, opened |-> {}]
        ELSE \* the file is opened and truncated; a chunk that cannot be
             \* encoded ends the loop with the exception, caught at 209
             [success |-> encodable(content),
              error |-> IF encodable(content) THEN None ELSE OsErrorMsg,
              files |-> [l \in DOMAIN files \cup {target} |->
                            IF l = target
                            THEN opened_w(IF target \in DOMAIN files THEN files[target]
                                          ELSE EmptyStr,
                                          text_write(WrittenChunks(content, 0)))
                            ELSE files[l]],
              dirs |-> dirs \cup above, opened |-> {target}]

\* CommandExecutor.safe_read_file
safe_read_file(filepath) ==
    LET target == OpenLoc(filepath)
    IN  IF ~is_path_in_project(filepath)
        THEN [content |-> None, error |-> OutsideMsg, opened |-> {}]
        ELSE IF target \notin DOMAIN files
        THEN [content |-> None, error |-> OsErrorMsg, opened |-> {}]
        ELSE [content |-> ReadChunks(text_read(files[target])), error |-> None,
              opened |-> {target}]

\* CommandExecutor.safe_copy_file (shutil.copy2: a directory as destination
\* receives the file under the source's name)
safe_copy_file(src, dst) ==
    LET from == OpenLoc(src)
        to == IF OpenLoc(dst) \in dirs /\ from.comps # << >>
              THEN [drive |-> OpenLoc(dst).drive,
                    comps |-> Append(OpenLoc(dst).comps, from.comps[Len(from.comps)])]
              ELSE OpenLoc(dst)
    IN  IF ~(is_path_in_project(src) /\ is_path_in_project(dst))
        THEN [success |-> FALSE, error |-> OutsideCopyMsg,
              files |-> files, dirs |-> dirs, opened |-> {}]
        ELSE IF \/ from \notin DOMAIN files
                \/ to = from
                \/ to \in dirs
                \/ ParentLoc(to) \notin dirs
        THEN [success |-> FALSE, error |-> OsErrorMsg,
              files |-> files, dirs |-> dirs,
              opened |-> IF from \in DOMAIN files /\ to # from THEN {from} ELSE {}]
        ELSE [success |-> TRUE, error |-> None,
              files |-> [l \in DOMAIN files \cup {to} |->
                            IF l = to THEN files[from] ELSE files[l]],
              dirs |-> dirs, opened |-> {from, to}]

(***************************************************************************)
(* The content-command interpreter                                         *)
(***************************************************************************)
W_Value == <<"-","V","a","l","u","e">>
HereOpen == <<"@", DQ>>
HereClose == <<DQ, "@">>
TripleQuote == <<DQ, DQ, DQ>>
EscapedTriple == <<BSL, DQ, BSL, DQ, BSL, DQ>>
DotPy == <<".","p","y">>

\* content.encode('utf-8').decode('unicode_escape') fails: a backslash at the
\* end of the text, or a \x, \u, \U or \N escape without its digits
RECURSIVE EscapeFails(_)
EscapeFails(s) ==
    IF s = EmptyStr THEN FALSE
    ELSE IF s[1] # BSL THEN EscapeFails(Tail(s))
    ELSE IF Len(s) = 1 THEN TRUE
    ELSE IF s[2] \in {"x", "u", "U", "N"} THEN TRUE
    ELSE EscapeFails(Drop(s, 3))

\* content.encode('utf-8').decode('unicode_escape') when it succeeds: \n, \t,
\* \\, \" and \' are decoded, any other backslash pair is kept, and a
\* character outside ASCII comes back as the Latin-1 reading of its bytes
RECURSIVE unicode_escape(_)
unicode_escape(s) ==
    IF s = EmptyStr THEN EmptyStr
    ELSE IF s[1] = "é" THEN <<"Ã", "©">> \o unicode_escape(Tail(s))
    ELSE IF s[1] # BSL \/ Len(s) = 1 THEN <<s[1]>> \o unicode_escape(Tail(s))
    ELSE (CASE s[2] = "n" -> <<LF>>
            [] s[2] = "t" -> <<"TAB">>
            [] s[2] \in {BSL, DQ, SQ} -> <<s[2]>>
            [] OTHER -> <<BSL, s[2]>>) \o unicode_escape(Drop(s, 3))

\* content.split('\n')
RECURSIVE SplitLines(_, _, _)
SplitLines(s, cur, acc) ==
    IF s = EmptyStr THEN Append(acc, cur)
    ELSE IF s[1] = LF THEN SplitLines(Tail(s), EmptyStr, Append(acc, cur))
    ELSE SplitLines(Tail(s), Append(cur, s[1]), acc)

\* content.replace(old, new)
RECURSIVE Replace(_, _, _)
Replace(s, old, new) ==
    IF s = EmptyStr THEN EmptyStr
    ELSE IF StartsWith(s, old) THEN new \o Replace(Drop(s, Len(old) + 1), old, new)
    ELSE <<s[1]>> \o Replace(Tail(s), old, new)

\* len(line) - len(line.lstrip())
Indent(line) == Len(line) - Len(LStripSet(line, {SP, LF, "TAB"}))

\* lines 555-566: remove the common indentation of the non-blank lines
indent_kept(content) == content
remove_indent_from_every_line(content) ==
    LET lines == SplitLines(content, EmptyStr, << >>)
        full == {i \in 1..Len(lines) : Strip(lines[i]) # EmptyStr}
    IN  IF full = {} THEN content
        ELSE LET min_indent == CHOOSE m \in {Indent(lines[i]) : i \in full} :
                                  \A i \in full : m <= Indent(lines[i])
             IN  JoinWith([i \in 1..Len(lines) |-> Drop(lines[i], min_indent + 1)], <<LF>>)
remove_common_indent(content) ==
    LET lines == SplitLines(content, EmptyStr, << >>)
        full == {i \in 1..Len(lines) : Strip(lines[i]) # EmptyStr}
    IN  IF full = {} THEN content
        ELSE LET min_indent == CHOOSE m \in {Indent(lines[i]) : i \in full} :
                                  \A i \in full : m <= Indent(lines[i])
             IN  JoinWith([i \in 1..Len(lines) |->
                              IF i \in full THEN Drop(lines[i], min_indent + 1) ELSE lines[i]],
                          <<LF>>)

\* lines 519-550: the text after -Value, its quoting removed; escaped tells
\* whether the unicode_escape decoding is applied to it
extract_value(value) ==
    IF Contains(value, HereOpen) /\ Contains(value, HereClose)
    THEN [escaped |-> FALSE,
          text |-> IF Find(value, HereOpen) + 1 < RFind(value, HereClose) - 1
                   THEN SubSeq(value, Find(value, HereOpen) + 2, RFind(value, HereClose) - 1)
                   ELSE EmptyStr]
    ELSE IF Contains(value, TripleQuote)
    THEN [escaped |-> FALSE,
          text |-> IF Find(value, TripleQuote) + 2 < RFind(value, TripleQuote) - 1
                   THEN SubSeq(value, Find(value, TripleQuote) + 3, RFind(value, TripleQuote) - 1)
                   ELSE EmptyStr]
    ELSE IF (StartsWith(value, <<DQ>>) /\ EndsWith(value, <<DQ>>))
            \/ (StartsWith(value, <<SQ>>) /\ EndsWith(value, <<SQ>>))
    THEN [escaped |-> TRUE,
          text |-> IF Len(value) < 2 THEN EmptyStr ELSE SubSeq(value, 2, Len(value) - 1)]
    ELSE [escaped |-> Contains(value, <<BSL, "n">>), text |-> value]

MissingPathMsg == <<"Invalid command format: missing -Path">>
MissingValueMsg == <<"Invalid command format: missing -Value">>
HandlerErrorMsg == <<"Error handling content command: str(e)">>
WriteFailedMsg == <<"Failed to write file: error">>
WrittenMsg == <<"File written successfully">>

\* the result of a handler that wrote nothing
NothingWritten(msg) ==
    [success |-> FALSE, output |-> None, error |-> msg,
     files |-> files, dirs |-> dirs, opened |-> {}]

\* CommandExecutor.handle_content_command
handle_content_command(command) ==
    IF path_match(command) = None THEN NothingWritten(MissingPathMsg)
    ELSE IF ~Contains(command, W_Value) THEN NothingWritten(MissingValueMsg)
    ELSE LET filepath == StripQuotes(path_match(command))
             value == Strip(Drop(command, Find(command, W_Value) + Len(W_Value)))
             v == extract_value(value)
         IN  IF v.escaped /\ EscapeFails(v.text) THEN NothingWritten(HandlerErrorMsg)
             ELSE LET decoded == IF v.escaped THEN unicode_escape(v.text) ELSE v.text
                      content == IF EndsWith(Lower(filepath), DotPy)
                                 THEN Replace(remove_common_indent(decoded),
                                              EscapedTriple, TripleQuote)
                                 ELSE decoded
                      w == safe_write_file(filepath, content)
                  IN  [success |-> w.success,
                       output |-> IF w.success THEN WrittenMsg ELSE None,
                       error |-> IF w.success THEN None ELSE WriteFailedMsg,
                       files |-> w.files, dirs |-> w.dirs, opened |-> w.opened]

SetMissingPathMsg == <<"Invalid Set-Content command format: missing -Path">>
SetMissingValueMsg == <<"Invalid Set-Content command format: missing -Value">>

\* CommandExecutor.handle_set_content: the same steps without the
\* unicode_escape decoding, the escaped triple quotes being restored only in
\* a content that holds a triple quote
handle_set_content(command) ==
    IF path_match(command) = None THEN NothingWritten(SetMissingPathMsg)
    ELSE IF ~Contains(command, W_Value) THEN NothingWritten(SetMissingValueMsg)
    ELSE LET filepath == StripQuotes(path_match(command))
             value == Strip(Drop(command, Find(command, W_Value) + Len(W_Value)))
             text == extract_value(value).text
             dedented == remove_common_indent(text)
             content == IF ~EndsWith(Lower(filepath), DotPy) THEN text
                        ELSE IF Contains(dedented, TripleQuote)
                        THEN Replace(dedented, EscapedTriple, TripleQuote)
                        ELSE dedented
             w == safe_write_file(filepath, content)
         IN  [success |-> w.success,
              output |-> IF w.success THEN WrittenMsg ELSE None,
              error |-> IF w.success THEN None ELSE WriteFailedMsg,
              files |-> w.files, dirs |-> w.dirs, opened |-> w.opened]

(***************************************************************************)
(* The shell session and the dispatch of a command                         *)
(***************************************************************************)
MaxProcs == 2

M_OUTPUT_START == <<"=","=","=","O","U","T","P","U","T","_","S","T","A","R","T","=","=","=">>
M_OUTPUT_END == <<"=","=","=","O","U","T","P","U","T","_","E","N","D","=","=","=">>
M_ERROR_START == <<"=","=","=","E","R","R","O","R","_","S","T","A","R","T","=","=","=">>
M_ERROR_END == <<"=","=","=","E","R","R","O","R","_","E","N","D","=","=","=">>
W_SetContent == <<"S","e","t","-","C","o","n","t","e","n","t">>
W_AddContent == <<"A","d","d","-","C","o","n","t","e","n","t">>
W_echo_sp == <<"e","c","h","o",SP>>
HereOpenSQ == <<"@", SQ>>
HereCloseSQ == <<SQ, "@">>

\* lines 456-459: the locals of the read loop before its first iteration
RdStart == [output |-> << >>, error |-> << >>, in_output |-> FALSE, in_error |-> FALSE]

\* line 38: no session yet, or poll() reports that the process has ended
session_missing(handle) == handle = 0 \/ procs[handle].state # "running"

\* subprocess.Popen(..., cwd=self.project_dir): the process started
NewProcess_in_cwd == [cwd |-> cwd, state |-> "running", out |-> << >>]
NewProcess == [cwd |-> project_dir, state |-> "running", out |-> << >>]

\* terminate() on the process behind a handle
Terminated_left_running(handle) == procs
Terminated(handle) == [procs EXCEPT ![handle].state = "terminated"]

\* line 394: the classifier decides whether anything is done at all
rejected_never(command) == FALSE
rejected(command) == ~is_safe_command(command)

\* line 398: the commands handed to the content-command interpreter
is_content_command(command) ==
    StartsWith(command, W_SetContent) \/ StartsWith(command, W_AddContent)

\* lines 409-411 and 429-431: one pair of matching surrounding quotes removed
Unquote(t) ==
    IF (StartsWith(t, <<DQ>>) /\ EndsWith(t, <<DQ>>))
       \/ (StartsWith(t, <<SQ>>) /\ EndsWith(t, <<SQ>>))
    THEN (IF Len(t) < 2 THEN EmptyStr ELSE SubSeq(t, 2, Len(t) - 1))
    ELSE t

\* lines 403-435: what the redirection branch makes of a command: kind
\* "write" (a direct file write of content to filepath), "raise"
\* (content.rindex("'@") finds nothing) or "shell" (left to the shell, as
\* is every command without `>`)
redirection(command) ==
    IF ~Contains(command, <<">">>)
    THEN [kind |-> "shell", filepath |-> EmptyStr, content |-> EmptyStr]
    ELSE
    LET write_idx == Find(command, <<">">>)
        content == Strip(Take(command, write_idx - 1))
        filepath == Unquote(Strip(Drop(command, write_idx + 1)))
    IN  IF StartsWith(content, <<"$">>) /\ Contains(content, HereOpenSQ)
        THEN IF ~Contains(content, HereCloseSQ)
             THEN [kind |-> "raise", filepath |-> filepath, content |-> EmptyStr]
             ELSE IF Find(content, HereOpenSQ) + 1 < RFind(content, HereCloseSQ) - 1
             THEN [kind |-> "write", filepath |-> filepath,
                   content |-> Strip(SubSeq(content, Find(content, HereOpenSQ) + 2,
                                            RFind(content, HereCloseSQ) - 1))]
             ELSE [kind |-> "shell", filepath |-> filepath, content |-> EmptyStr]
        ELSE IF StartsWith(Lower(content), W_echo_sp)
        THEN [kind |-> "write", filepath |-> filepath,
              content |-> Unquote(Strip(Drop(content, 6)))]
        ELSE [kind |-> "shell", filepath |-> filepath, content |-> EmptyStr]

\* what the shell prints for one wrapped command: each line ends in a line feed
RawLine(line) == line \o <<LF>>
L_x == <<"x">>
L_0 == <<"0">>
L_err == <<"e","r","r">>

ShellOutputs ==
    {\* the command prints x and succeeds
     <<RawLine(M_OUTPUT_START), RawLine(L_x), RawLine(L_0), RawLine(M_OUTPUT_END),
       RawLine(M_ERROR_START), RawLine(M_ERROR_END)>>,
     \* the command prints nothing, no exit code is printed, an error is reported
     <<RawLine(M_OUTPUT_START), RawLine(M_OUTPUT_END),
       RawLine(M_ERROR_START), RawLine(EmptyStr), RawLine(L_err), RawLine(M_ERROR_END)>>,
     \* the command hangs after its first line
     <<RawLine(M_OUTPUT_START), RawLine(L_x)>>}

\* the record of an execute_command call
ExecCall(command, status, route, stdout, stderr, is_safe, wrote_to, opened) ==
    [op |-> "execute_command", command |-> command, status |-> status, route |-> route,
     stdout |-> stdout, stderr |-> stderr, is_safe |-> is_safe,
     wrote_to |-> wrote_to, opened |-> opened]

\* the record of a call that wrote its command to the session: printed is
\* what the shell prints for it
ShellCall(command, wrote_to, printed) ==
    [op |-> "execute_command", command |-> command, status |-> "reading", route |-> "shell",
     stdout |-> None, stderr |-> None, is_safe |-> FALSE,
     wrote_to |-> wrote_to, opened |-> {}, printed |-> printed]

\* lines 437-453: the session is ensured and the wrapped command written to
\* its input; the shell then prints one of printings (records whose raw
\* field is the sequence of lines).  A process that ends between poll() and
\* the write makes the write raise.
forward(command, printings) ==
    LET fresh == session_missing(powershell_process)
        started == IF fresh THEN Append(procs, NewProcess) ELSE procs
        handle == IF fresh THEN Len(procs) + 1 ELSE powershell_process
    IN  /\ fresh => Len(procs) < MaxProcs
        /\ powershell_process' = handle
        /\ \/ \E p \in printings :
                /\ procs' = [started EXCEPT ![handle].out = @ \o p.raw]
                /\ pc' = "reading"
                /\ rd' = RdStart
                /\ last' = ShellCall(command, handle, p)
           \/ /\ procs' = [started EXCEPT ![handle].state = "exited"]
              /\ pc' = "idle"
              /\ rd' = RdStart
              /\ last' = ExecCall(command, "raised", "shell", None, None, FALSE, 0, {})
        /\ UNCHANGED <<project_dir, cwd, files, dirs>>

forward_to_shell(command) == forward(command, {[raw |-> o] : o \in ShellOutputs})

\* a direct file write, lines 420-423 and 432-435
direct_write(command, filepath, content) ==
    \E w \in {safe_write_file(filepath, content)} :
        /\ files' = w.files
        /\ dirs' = w.dirs
        /\ last' = ExecCall(command, "returned", "redirect",
                            IF w.success THEN WrittenMsg ELSE None,
                            IF w.success THEN None ELSE w.error,
                            w.success, 0, w.opened)
        /\ UNCHANGED <<project_dir, powershell_process, procs, cwd, pc, rd>>

\* CommandExecutor.execute_command, up to its return or to the read loop
execute_command(command) ==
    /\ pc = "idle"
    /\ IF rejected(command)
       THEN /\ last' = ExecCall(command, "returned", "rejected", None, None, FALSE, 0, {})
            /\ UNCHANGED <<project_dir, powershell_process, procs, cwd, files, dirs, pc, rd>>
       ELSE IF is_content_command(command)
       THEN \E r \in {handle_content_command(command)} :
                /\ files' = r.files
                /\ dirs' = r.dirs
                /\ last' = ExecCall(command, "returned", "content",
                                    r.output, r.error, r.success, 0, r.opened)
                /\ UNCHANGED <<project_dir, powershell_process, procs, cwd, pc, rd>>
       ELSE \E redirect \in {redirection(command)} :
            IF redirect.kind = "write"
            THEN direct_write(command, redirect.filepath, redirect.content)
            ELSE IF redirect.kind = "raise"
            THEN /\ last' = ExecCall(command, "raised", "redirect", None, None, FALSE, 0, {})
                 /\ UNCHANGED <<project_dir, powershell_process, procs, cwd, files, dirs, pc, rd>>
            ELSE forward_to_shell(command)

\* s[:-1]
AllButLast(q) == IF q = << >> THEN << >> ELSE SubSeq(q, 1, Len(q) - 1)

\* lines 462-481: what one line that does not end the loop does to the
\* loop's variables
read_step(r, line) ==
    IF line = EmptyStr THEN r
    ELSE IF line = M_OUTPUT_START THEN [r EXCEPT !.in_output = TRUE]
    ELSE IF line = M_OUTPUT_END THEN [r EXCEPT !.in_output = FALSE]
    ELSE IF line = M_ERROR_START THEN [r EXCEPT !.in_error = TRUE]
    ELSE IF r.in_output THEN [r EXCEPT !.output = Append(@, line)]
    ELSE IF r.in_error THEN [r EXCEPT !.error = Append(@, line)]
    ELSE r

\* lines 474-478: the line that ends the loop
is_break_at_output_end(line) == line = M_OUTPUT_END
is_break(line) == line = M_ERROR_END

\* lines 461-494: one iteration of the read loop on a line the shell printed;
\* the end marker of the error section ends the loop and the call returns
read_line ==
    /\ pc = "reading"
    /\ procs[powershell_process].out # << >>
    /\ \E line \in {RStripSet(Head(procs[powershell_process].out), {SP, LF, "TAB"})} :
           /\ procs' = [procs EXCEPT ![powershell_process].out = Tail(@)]
           /\ IF is_break(line)
              THEN /\ pc' = "idle"
                   /\ rd' = RdStart
                   /\ last' = [last EXCEPT !.status = "returned",
                                           !.stdout = JoinWith(AllButLast(rd.output), <<LF>>),
                                           !.stderr = JoinWith(rd.error, <<LF>>),
                                           !.is_safe = TRUE]
              ELSE /\ pc' = "reading"
                   /\ last' = last
                   /\ rd' = read_step(rd, line)
    /\ UNCHANGED <<project_dir, powershell_process, cwd, files, dirs>>

\* lines 462-464 at end of file: readline() returns '' and the loop goes round
read_eof_returns ==
    /\ pc = "reading"
    /\ procs[powershell_process].out = << >>
    /\ procs[powershell_process].state # "running"
    /\ pc' = "idle"
    /\ last' = [last EXCEPT !.status = "returned"]
    /\ UNCHANGED <<project_dir, powershell_process, procs, cwd, files, dirs, rd, batch, chat>>
read_eof ==
    /\ pc = "reading"
    /\ procs[powershell_process].out = << >>
    /\ procs[powershell_process].state # "running"
    /\ UNCHANGED vars

\* CommandExecutor.set_project_dir
set_project_dir(directory) ==
    /\ pc = "idle"
    /\ project_dir' = directory
    /\ IF powershell_process # 0
       THEN /\ procs' = Terminated(powershell_process)
            /\ powershell_process' = 0
       ELSE UNCHANGED <<powershell_process, procs>>
    /\ last' = [op |-> "set_project_dir", directory |-> directory]
    /\ UNCHANGED <<cwd, files, dirs, pc, rd>>

\* the shell process ends by itself
process_exit ==
    /\ \E i \in 1..Len(procs) :
          /\ procs[i].state = "running"
          /\ procs' = [procs EXCEPT ![i].state = "exited"]
    /\ UNCHANGED <<project_dir, powershell_process, cwd, files, dirs, pc, rd, last>>

(***************************************************************************)
(* execute_commands: a list of command descriptors run in order            *)
(***************************************************************************)
\* a key a descriptor does not hold, and dict.get(key, default)
Missing == <<"Missing">>
NoDescription == <<"No description provided">>
get(value, default) == IF value = Missing THEN default ELSE value

\* line 591: the call has been made, nothing is run yet
BatchCalled(command_list) ==
    [phase |-> "next", command_list |-> command_list, i |-> 0, results |-> << >>]

\* line 597: a descriptor without a command is passed over
has_command(command) == command # EmptyStr

\* lines 593-598: the next descriptor is taken; a descriptor whose stripped
\* command is empty is passed over, any other is handed to execute_command
execute_commands_next ==
    /\ batch.phase = "next"
    /\ batch.i < Len(batch.command_list)
    /\ pc = "idle"
    /\ \E command \in {Strip(get(batch.command_list[batch.i + 1].command, EmptyStr))} :
          IF has_command(command)
          THEN /\ execute_command(command)
               /\ batch' = [batch EXCEPT !.phase = "called"]
          ELSE /\ batch' = [batch EXCEPT !.i = @ + 1]
               /\ UNCHANGED <<project_dir, powershell_process, procs, cwd,
                              files, dirs, pc, rd, last>>
    /\ UNCHANGED chat

\* lines 598-606: execute_command has returned and its result is appended;
\* an exception it raised leaves execute_commands, no handler being in the way
execute_commands_append ==
    /\ batch.phase = "called"
    /\ pc = "idle"
    /\ IF last.status = "returned"
       THEN batch' = [batch EXCEPT
                !.phase = "next",
                !.i = @ + 1,
                !.results = Append(@,
                    [command |-> last.command,
                     description |-> get(batch.command_list[batch.i + 1].description,
                                         NoDescription),
                     stdout |-> last.stdout, stderr |-> last.stderr,
                     is_safe |-> last.is_safe])]
       ELSE batch' = [batch EXCEPT !.phase = "raised"]
    /\ UNCHANGED <<project_dir, powershell_process, procs, cwd, files, dirs, pc, rd,
                   last, chat>>

\* line 608: the list is exhausted and the results are returned
execute_commands_return ==
    /\ batch.phase = "next"
    /\ batch.i = Len(batch.command_list)
    /\ batch' = [batch EXCEPT !.phase = "returned"]
    /\ UNCHANGED <<project_dir, powershell_process, procs, cwd, files, dirs, pc, rd,
                   last, chat>>

(***************************************************************************)
(* Inputs: the roots, working directories and paths the checks range over  *)
(***************************************************************************)
MaxSegs == 3

\* all sequences over S of length 0..n
RECURSIVE SeqsUpTo(_, _)
SeqsUpTo(S, n) ==
    IF n = 0 THEN {<< >>}
    ELSE LET shorter == SeqsUpTo(S, n - 1)
         IN  shorter \cup {Append(q, x) : q \in {r \in shorter : Len(r) = n - 1}, x \in S}

RootProj == <<"C",":","/","P","r","o","j">>                \* C:/Proj
RootSub == <<"c",":",BSL,"P","r","o","j",BSL,"s","u","b">> \* c:\Proj\sub
DirHome == <<"C",":","/","h","o","m","e">>                 \* C:/home

\* values of project_dir: unset (None, or the empty string) or a directory
Roots == {RootProj, RootSub}
RootValues == {None, EmptyStr} \cup Roots

\* working directories of the host process: the root, or a directory outside it
Cwds == {RootProj, DirHome}

PathSegments ==
    {<<"a">>, <<"s","u","b">>, <<"P","r","o","j">>, <<".">>, <<".",".">>,
     <<".",".","a">>, <<"~">>, <<"a",NUL>>}

\* relative, or under a drive (the root's drive in either case, another drive)
PathPrefixes == {EmptyStr, <<"C",":","/">>, <<"c",":",BSL>>, <<"D",":","/">>}

Paths ==
    {pre \o JoinWith(segs, <<sep>>) :
        pre \in PathPrefixes, segs \in SeqsUpTo(PathSegments, MaxSegs), sep \in {"/", BSL}}

(***************************************************************************)
(* The filesystem before a run: the drive, the two roots and the outside   *)
(* directory exist; one file lies inside the root and one outside it       *)
(***************************************************************************)
F_a == <<"a">>
C_old == <<"o","l","d">>
C_secret == <<"s","e","c","r","e","t">>

InitDirs ==
    {LocFrom(<<"C",":","/">>, RootProj), LocFrom(RootProj, RootProj),
     LocFrom(RootSub, RootProj), LocFrom(DirHome, RootProj)}

InitFiles ==
    (LocFrom(F_a, RootProj) :> C_old) @@ (LocFrom(F_a, DirHome) :> C_secret)

(***************************************************************************)
(* is_path_in_project as a function of its inputs                          *)
(***************************************************************************)
\* is_path_in_project applied to the path drawn at the start
Call_is_path_in_project ==
    /\ last.op = "input"
    /\ last' = [op |-> "is_path_in_project", path |-> last.path,
                result |-> is_path_in_project(last.path)]
    /\ UNCHANGED <<project_dir, powershell_process, procs, cwd, files, dirs, pc, rd>>

InitPath ==
    /\ project_dir \in RootValues
    /\ cwd \in Cwds
    /\ powershell_process = 0
    /\ procs = << >>
    /\ files = InitFiles
    /\ dirs = InitDirs
    /\ pc = "idle"
    /\ rd = RdStart
    /\ \E p \in Paths : last = [op |-> "input", path |-> p]
    /\ batch = NoBatch
    /\ chat = ChatStart

NextPath == Call_is_path_in_project /\ UNCHANGED <<batch, chat>>

SpecPath == InitPath /\ [][NextPath]_vars

(***************************************************************************)
(* The safe file operations as functions of their inputs                   *)
(***************************************************************************)
F_sub_b == <<"s","u","b","/","b">>                          \* sub/b
F_a_b == <<"a","/","b">>                                    \* a/b
F_sub == <<"s","u","b">>                                    \* sub
F_home_a == <<"C",":","/","h","o","m","e","/","a">>         \* C:/home/a
F_Proj_a == <<"C",":","/","P","r","o","j","/","a">>         \* C:/Proj/a
F_up_home_a == <<".",".","/","h","o","m","e","/","a">>      \* ../home/a
C_hi == <<"h","i">>

FilePaths == {F_a, F_sub_b, F_a_b, F_sub, F_home_a, F_Proj_a, F_up_home_a, EmptyStr}
Contents == {C_hi, EmptyStr}

Call_safe_write_file ==
    /\ last.op = "input" /\ last.call = "safe_write_file"
    /\ \E r \in {safe_write_file(last.path, last.content)} :
           /\ files' = r.files
           /\ dirs' = r.dirs
           /\ last' = [op |-> "safe_write_file", paths |-> <<last.path>>,
                       content |-> last.content, failed |-> ~r.success,
                       value |-> r.success, error |-> r.error, opened |-> r.opened]
    /\ UNCHANGED <<project_dir, powershell_process, procs, cwd, pc, rd>>

Call_safe_read_file ==
    /\ last.op = "input" /\ last.call = "safe_read_file"
    /\ \E r \in {safe_read_file(last.path)} :
           last' = [op |-> "safe_read_file", paths |-> <<last.path>>,
                    content |-> EmptyStr, failed |-> r.error # None,
                    value |-> r.content, error |-> r.error, opened |-> r.opened]
    /\ UNCHANGED <<project_dir, powershell_process, procs, cwd, files, dirs, pc, rd>>

Call_safe_copy_file ==
    /\ last.op = "input" /\ last.call = "safe_copy_file"
    /\ \E r \in {safe_copy_file(last.path, last.dst)} :
           /\ files' = r.files
           /\ dirs' = r.dirs
           /\ last' = [op |-> "safe_copy_file", paths |-> <<last.path, last.dst>>,
                       content |-> EmptyStr, failed |-> ~r.success,
                       value |-> r.success, error |-> r.error, opened |-> r.opened]
    /\ UNCHANGED <<project_dir, powershell_process, procs, cwd, pc, rd>>

FileCalls ==
    {[op |-> "input", call |-> "safe_write_file", path |-> p, dst |-> EmptyStr, content |-> c] :
        p \in FilePaths, c \in Contents}
    \cup {[op |-> "input", call |-> "safe_read_file", path |-> p, dst |-> EmptyStr,
           content |-> EmptyStr] : p \in FilePaths}
    \cup {[op |-> "input", call |-> "safe_copy_file", path |-> p, dst |-> q,
           content |-> EmptyStr] : p \in FilePaths, q \in FilePaths}

InitFileOps ==
    /\ project_dir \in RootValues
    /\ cwd \in Cwds
    /\ powershell_process = 0
    /\ procs = << >>
    /\ files = InitFiles
    /\ dirs = InitDirs
    /\ pc = "idle"
    /\ rd = RdStart
    /\ last \in FileCalls
    /\ batch = NoBatch
    /\ chat = ChatStart

NextFileOps ==
    \/ Call_safe_write_file /\ UNCHANGED <<batch, chat>>
    \/ Call_safe_read_file /\ UNCHANGED <<batch, chat>>
    \/ Call_safe_copy_file /\ UNCHANGED <<batch, chat>>

SpecFileOps == InitFileOps /\ [][NextFileOps]_vars

(***************************************************************************)
(* safe_write_file followed by safe_read_file of the same path             *)
(***************************************************************************)
MaxChunk == 3

C_two_lines == <<"a", LF, "b">>
C_cr == <<"a", CR, "b">>
C_crlf == <<"a", CR, LF, "b">>
C_surrogate == <<"a", "b", Surrogate>>

RoundTripContents == {EmptyStr, C_hi, C_two_lines, C_cr, C_crlf, C_surrogate}

RoundTrip_write ==
    /\ last.op = "input" /\ last.call = "round_trip"
    /\ \E r \in {safe_write_file(last.path, last.content)} :
           /\ files' = r.files
           /\ dirs' = r.dirs
           /\ last' = [op |-> "written", path |-> last.path, content |-> last.content,
                       success |-> r.success, error |-> r.error]
    /\ UNCHANGED <<project_dir, powershell_process, procs, cwd, pc, rd>>

RoundTrip_read ==
    /\ last.op = "written"
    /\ \E r \in {safe_read_file(last.path)} :
           last' = [op |-> "read_back", path |-> last.path, content |-> last.content,
                    success |-> last.success, value |-> r.content, error |-> r.error]
    /\ UNCHANGED <<project_dir, powershell_process, procs, cwd, files, dirs, pc, rd>>

InitRoundTrip ==
    /\ project_dir \in Roots
    /\ cwd \in Cwds
    /\ powershell_process = 0
    /\ procs = << >>
    /\ files = InitFiles
    /\ dirs = InitDirs
    /\ pc = "idle"
    /\ rd = RdStart
    /\ last \in {[op |-> "input", call |-> "round_trip", path |-> p, content |-> c] :
                    p \in FilePaths, c \in RoundTripContents}
    /\ batch = NoBatch
    /\ chat = ChatStart

NextRoundTrip ==
    \/ RoundTrip_write /\ UNCHANGED <<batch, chat>>
    \/ RoundTrip_read /\ UNCHANGED <<batch, chat>>

SpecRoundTrip == InitRoundTrip /\ [][NextRoundTrip]_vars

(***************************************************************************)
(* The content handlers as functions of the command                        *)
(***************************************************************************)
MaxLines == 2

P_s_py == <<"s",".","p","y">>                                      \* s.py
P_a_Value == <<"a","-","V","a","l","u","e",".","t","x","t">>       \* a-Value.txt
V_apos == <<"h",SQ,"i">>                                           \* h'i
V_accent == <<"é">>
V_at == <<"@">>
V_words == <<"a",SP,"b",SP>>
V_escaped == <<"a",BSL,"n","b">>                                   \* a\nb
V_indented == <<SP,"h","i">>
L_1 == <<"l","1">>
L_indented == <<SP,SP,"l","2">>
L_deeper == <<SP,SP,SP,"x",DQ,"y",SQ,"z",DQ>>                      \*    x"y'z"
L_accent == <<"é","3">>
L_doc == <<BSL,DQ,BSL,DQ,BSL,DQ,"d">>                             \* \"\"\"d

ContentPaths == {None, F_a, P_s_py, P_a_Value}
ContentValues == {C_hi, V_apos, V_accent, V_at, V_words, V_escaped, V_indented}
HereLines == {L_1, L_indented, L_deeper, L_accent, L_doc}

\* the here-string value @", newline, the lines, newline, "@
HereString(lines) ==
    HereOpen \o <<LF>> \o JoinWith(lines, <<LF>>) \o <<LF>> \o HereClose

\* the command text for a given path and value: Set-Content, then -Path P
\* when a path is given, then -Value and the value text when one is given
ContentCommand(given) ==
    JoinWith(<<W_SetContent>>
                \o (IF given.path = None THEN << >> ELSE <<W_Path, given.path>>)
                \o (CASE given.kind = "none" -> << >>
                      [] given.kind = "quoted" -> <<W_Value, <<DQ>> \o given.text \o <<DQ>>>>
                      [] given.kind = "here" -> <<W_Value, HereString(given.lines)>>),
             <<SP>>)

Givens ==
    {[path |-> p, kind |-> "none", text |-> EmptyStr, lines |-> << >>] : p \in ContentPaths}
    \cup {[path |-> p, kind |-> "quoted", text |-> v, lines |-> << >>] :
             p \in ContentPaths, v \in ContentValues}
    \cup {[path |-> p, kind |-> "here", text |-> EmptyStr, lines |-> ls] :
             p \in ContentPaths, ls \in SeqsUpTo(HereLines, MaxLines) \ {<< >>}}

ContentResult(call, r) ==
    [op |-> call, command |-> last.command, given |-> last.given,
     success |-> r.success, output |-> r.output, error |-> r.error, opened |-> r.opened]

Call_handle_content_command ==
    /\ last.op = "input" /\ last.call = "handle_content_command"
    /\ \E r \in {handle_content_command(last.command)} :
           /\ files' = r.files
           /\ dirs' = r.dirs
           /\ last' = ContentResult("handle_content_command", r)
    /\ UNCHANGED <<project_dir, powershell_process, procs, cwd, pc, rd>>

Call_handle_set_content ==
    /\ last.op = "input" /\ last.call = "handle_set_content"
    /\ \E r \in {handle_set_content(last.command)} :
           /\ files' = r.files
           /\ dirs' = r.dirs
           /\ last' = ContentResult("handle_set_content", r)
    /\ UNCHANGED <<project_dir, powershell_process, procs, cwd, pc, rd>>

InitContent ==
    /\ project_dir = RootProj
    /\ cwd \in Cwds
    /\ powershell_process = 0
    /\ procs = << >>
    /\ files = InitFiles
    /\ dirs = InitDirs
    /\ pc = "idle"
    /\ rd = RdStart
    /\ last \in {[op |-> "input", call |-> c, command |-> ContentCommand(g), given |-> g] :
                    c \in {"handle_content_command", "handle_set_content"}, g \in Givens}
    /\ batch = NoBatch
    /\ chat = ChatStart

NextContent ==
    \/ Call_handle_content_command /\ UNCHANGED <<batch, chat>>
    \/ Call_handle_set_content /\ UNCHANGED <<batch, chat>>

SpecContent == InitContent /\ [][NextContent]_vars

(***************************************************************************)
(* The indentation step as a function of the content                       *)
(***************************************************************************)
MaxIndentLines == 3

I_x == <<"x">>
I_1x == <<SP, "x">>
I_2x == <<SP, SP, "x", SP, "y">>
I_tab_x == <<"TAB", "x">>
I_blank_1 == <<SP>>
I_blank_3 == <<SP, SP, SP>>

IndentLines == {I_x, I_1x, I_2x, I_tab_x, EmptyStr, I_blank_1, I_blank_3}

\* the contents: up to MaxIndentLines lines joined by line feeds
IndentContents ==
    {JoinWith(ls, <<LF>>) : ls \in SeqsUpTo(IndentLines, MaxIndentLines) \ {<< >>}}

\* the indentation step applied to the content drawn at the start
Call_remove_common_indent ==
    /\ last.op = "input"
    /\ last' = [op |-> "remove_common_indent", content |-> last.content,
                result |-> remove_common_indent(last.content)]
    /\ UNCHANGED <<project_dir, powershell_process, procs, cwd, files, dirs, pc, rd>>

InitIndent ==
    /\ project_dir = RootProj
    /\ cwd = RootProj
    /\ powershell_process = 0
    /\ procs = << >>
    /\ files = InitFiles
    /\ dirs = InitDirs
    /\ pc = "idle"
    /\ rd = RdStart
    /\ last \in {[op |-> "input", content |-> c] : c \in IndentContents}
    /\ batch = NoBatch
    /\ chat = ChatStart

NextIndent == Call_remove_common_indent /\ UNCHANGED <<batch, chat>>

SpecIndent == InitIndent /\ [][NextIndent]_vars

(***************************************************************************)
(* The chat window's message history                                       *)
(***************************************************************************)
MaxSends == 11
MaxScript == 2
maxlen == 20

Blank == <<SP, SP>>
ErrorText == <<"Error: str(e)">>
JsonReply == <<"{message, command}">>
JsonNoMessage == <<"{command}">>
NotJson == <<"not json">>
ApiFails == <<"create() raises">>

\* what self.client.chat.completions.create does in a send: it returns a
\* content (JSON with a message, JSON without one, or no JSON) or raises
ApiOutcomes == {JsonReply, JsonNoMessage, NotJson, ApiFails}

\* the client handed to the constructor answers the calls by a script of
\* outcomes, begun again when it is used up
Clients == SeqsUpTo(ApiOutcomes, MaxScript) \ {<< >>}
create(client, n) == client[((n - 1) % Len(client)) + 1]

\* ChatWindow.__init__(openai_client); sent counts the messages that got
\* past both early returns of send_message
ChatWindow(openai_client) ==
    [project_dir |-> None, message_history |-> << >>, sent |-> 0, client |-> openai_client]

\* deque(maxlen=20).append(x): the oldest entry goes when the deque is full
deque_append_unbounded(d, x) == Append(d, x)
deque_append(d, x) ==
    IF Len(d) = maxlen THEN Append(Tail(d), x) ELSE Append(d, x)

\* self.message_history[-1] = x
set_last(d, x) == [d EXCEPT ![Len(d)] = x]

\* ChatWindow.add_to_history
add_to_history(d, user_message, ai_message) ==
    deque_append(deque_append(d, [role |-> "user", content |-> user_message]),
                 [role |-> "assistant", content |-> ai_message])

\* lines 284-331: the entry a send leaves as the last of the history for an
\* outcome of the API call; the message of a JSON reply is written as the
\* reply itself
last_entry(outcome) ==
    [role |-> "assistant",
     content |-> CASE outcome = JsonReply -> JsonReply
                   [] outcome = NotJson -> NotJson
                   [] outcome = ApiFails -> ErrorText
                   [] outcome = JsonNoMessage -> None]

\* ChatWindow.save_project_directory with a directory chosen
save_project_directory ==
    /\ chat.project_dir = None
    /\ chat' = [chat EXCEPT !.project_dir = RootProj]

\* the text the user types for the n-th message
MessageText(n) == <<"m", ToString(n)>>

\* ChatWindow.send_message with the text of the input field
send_message(text) ==
    /\ chat.sent < MaxSends
    /\ IF Strip(text) = EmptyStr \/ chat.project_dir = None
       THEN UNCHANGED chat
       ELSE chat' = [chat EXCEPT
                       !.message_history =
                           set_last(add_to_history(@, Strip(text), None),
                                    last_entry(create(chat.client, chat.sent + 1))),
                       !.sent = @ + 1]

InitChat ==
    /\ project_dir = None
    /\ cwd = RootProj
    /\ powershell_process = 0
    /\ procs = << >>
    /\ files = InitFiles
    /\ dirs = InitDirs
    /\ pc = "idle"
    /\ rd = RdStart
    /\ last = [op |-> "none"]
    /\ batch = NoBatch
    /\ chat \in {ChatWindow(c) : c \in Clients}

NextChat ==
    \/ /\ save_project_directory
       /\ UNCHANGED <<project_dir, powershell_process, procs, cwd, files, dirs, pc, rd, last, batch>>
    \/ /\ \E text \in {Blank, MessageText(chat.sent + 1)} : send_message(text)
       /\ UNCHANGED <<project_dir, powershell_process, procs, cwd, files, dirs, pc, rd, last, batch>>

SpecChat == InitChat /\ [][NextChat]_vars

(***************************************************************************)
(* Properties of is_path_in_project (checked under SpecPath)               *)
(***************************************************************************)
PathChecked == last.op = "is_path_in_project"

RootSet == project_dir \in Roots

\* the components of a path as written, the drive left out
CompsOf(p) == SplitSep(splitdrive(p)[2], EmptyStr, << >>)

HasDotDotSegment(p) == \E i \in 1..Len(CompsOf(p)) : CompsOf(p)[i] = <<".", ".">>

\* a resolved location is the location base or lies below it (names compared
\* without regard to case, as the filesystem does)
AtOrBelow(loc, base) ==
    /\ Lower(loc.drive) = Lower(base.drive)
    /\ Len(base.comps) <= Len(loc.comps)
    /\ \A i \in 1..Len(base.comps) : Lower(loc.comps[i]) = Lower(base.comps[i])

\* where a path leads when it is read from the root: relative paths start at
\* the root, "." and ".." are folded
LeadsTo(p) == abspath(IF isabs(p) THEN p ELSE join(project_dir, p), cwd)

LeavesRoot(p) == ~AtOrBelow(LeadsTo(p), abspath(project_dir, cwd))

\* C4: every path with a `..` segment, wherever it stands, is rejected
C4_AnyDotDotSegmentRejected ==
    (PathChecked /\ HasDotDotSegment(last.path)) => last.result = FALSE

\* C4, for the paths that leave the root: a path with a `..` segment that
\* leads out of the root is rejected (one whose `..` stays inside the root,
\* as sub/../a, need not be)
C4_EscapingDotDotRejected ==
    (PathChecked /\ RootSet /\ HasDotDotSegment(last.path) /\ LeavesRoot(last.path))
        => last.result = FALSE

C4_Witness ==
    /\ PathChecked /\ RootSet
    /\ HasDotDotSegment(last.path) /\ LeavesRoot(last.path)
    /\ ~isabs(last.path) /\ CompsOf(last.path)[1] # <<".", ".">>
    /\ last.result = FALSE

\* a path lexically inside the root: relative, or the root followed by
\* nothing or by a separator and more; no `..`, no `~`, no null byte
LexicallyInside(p) ==
    /\ ~Contains(p, <<".", ".">>)
    /\ ~Contains(p, <<"~">>)
    /\ ~Contains(p, <<NUL>>)
    /\ \/ splitdrive(p)[1] = EmptyStr /\ ~isabs(p)
       \/ /\ StartsWith(p, project_dir)
          /\ Len(p) = Len(project_dir) \/ IsSep(p[Len(project_dir) + 1])

\* C5: with a root configured, every path lexically inside the root that
\* holds no `..`, `~` or null byte is accepted
C5_InsidePathsAccepted ==
    (PathChecked /\ RootSet /\ LexicallyInside(last.path)) => last.result = TRUE

C5_Witness ==
    /\ PathChecked /\ RootSet /\ LexicallyInside(last.path)
    /\ isabs(last.path) /\ Len(last.path) > Len(project_dir) + 1
    /\ cwd # project_dir
    /\ last.result = TRUE

\* C6: is_path_in_project is false whenever no root is configured, and for
\* every path holding a null byte or beginning with `~`
C6_FailsClosed ==
    (PathChecked /\ (~RootSet \/ Contains(last.path, <<NUL>>) \/ StartsWith(last.path, <<"~">>)))
        => last.result = FALSE

C6_Witness ==
    /\ PathChecked /\ RootSet
    /\ StartsWith(last.path, <<"~">>) /\ ~Contains(last.path, <<NUL>>)
    /\ ~LeavesRoot(last.path)
    /\ last.result = FALSE

(***************************************************************************)
(* Commands the classifier is checked on: a verb followed by up to MaxArgs *)
(* tokens, joined by single spaces; the empty and the blank command        *)
(***************************************************************************)
MaxArgs == 2

V_DIR == <<"D","I","R">>
V_Type == <<"T","y","p","e">>
V_FORMAT == <<"F","O","R","M","A","T">>
V_Format == <<"F","o","r","m","a","t">>
V_echo == <<"e","c","h","o">>
V_python == <<"p","y","t","h","o","n">>
V_Set_Content == <<"S","e","t","-","C","o","n","t","e","n","t">>
V_Add_Content == <<"A","d","d","-","C","o","n","t","e","n","t">>
V_New_Item == <<"N","e","w","-","I","t","e","m">>

Verbs ==
    safe_commands \cup {V_DIR, V_Type, W_format, V_FORMAT, V_Format, V_echo, V_python,
                        V_Set_Content, W_set_content, V_Add_Content, V_New_Item}

T_a == <<"a">>
T_quoted_inside == <<DQ,"C",":","/","P","r","o","j","/","A",DQ>>  \* "C:/Proj/A"
T_outside == <<"C",":","/","h","o","m","e","/","a">>              \* C:/home/a
T_dots == <<"a",".",".","b">>                                      \* a..b
T_tilde == <<"a","~">>                                             \* a~
T_redirect == <<">">>

T_rooted == <<"/","h","o","m","e","/","a">>                      \* /home/a
T_xPath == <<"x","-","P","a","t","h">>                            \* x-Path

ArgTokens == {T_a, T_quoted_inside, T_outside, T_dots, T_tilde, W_Path, T_redirect,
              T_rooted, T_xPath}

CommandTokens ==
    {<< >>} \cup {<<v>> \o args : v \in Verbs, args \in SeqsUpTo(ArgTokens, MaxArgs)}

\* the text of a command made of the given tokens (a blank for no token)
CommandText(tokens) == IF tokens = << >> THEN <<SP>> ELSE JoinWith(tokens, <<SP>>)

\* is_safe_command applied to the command drawn at the start
Call_is_safe_command ==
    /\ last.op = "input"
    /\ last' = [op |-> "is_safe_command", tokens |-> last.tokens, command |-> last.command,
                result |-> is_safe_command(last.command)]
    /\ UNCHANGED <<project_dir, powershell_process, procs, cwd, files, dirs, pc, rd>>

InitClassify ==
    /\ project_dir \in RootValues
    /\ cwd \in Cwds
    /\ powershell_process = 0
    /\ procs = << >>
    /\ files = InitFiles
    /\ dirs = InitDirs
    /\ pc = "idle"
    /\ rd = RdStart
    /\ \E t \in CommandTokens :
          \E c \in {CommandText(t)} \cup (IF t = << >> THEN {EmptyStr} ELSE {}) :
              last = [op |-> "input", tokens |-> t, command |-> c]
    /\ batch = NoBatch
    /\ chat = ChatStart

NextClassify == Call_is_safe_command /\ UNCHANGED <<batch, chat>>

SpecClassify == InitClassify /\ [][NextClassify]_vars

(***************************************************************************)
(* The executor: construction, then any sequence of calls                  *)
(***************************************************************************)
A_Cdrive == <<"C",":">>
A_hi == <<"h","i">>
A_hi_sq == <<SQ,"h","i",SQ>>
A_hi_dq == <<DQ,"h","i",DQ>>
A_rooted == <<"/","h","o","m","e","/","a">>            \* /home/a
A_here == <<"$","x","=","@",SQ,"h","i",SQ,"@">>      \* $x=@'hi'@
A_here_open == <<"$","x","=","@",SQ,"h","i">>         \* $x=@'hi

ExecCommands ==
    {CommandText(<<W_dir>>),
     CommandText(<<W_format, A_Cdrive>>),
     CommandText(<<W_type, T_outside>>),
     CommandText(<<V_echo, A_hi_sq, T_redirect, T_a>>),
     CommandText(<<V_echo, A_hi, T_redirect, F_sub>>),
     CommandText(<<V_echo, A_hi, T_redirect, A_rooted>>),
     CommandText(<<V_Set_Content, W_Path, T_a, W_Value, A_hi_dq>>),
     CommandText(<<V_Set_Content, W_Value, A_hi_dq>>),
     CommandText(<<A_here, T_redirect, T_a>>),
     CommandText(<<A_here_open, T_redirect, T_a>>),
     CommandText(<<W_dir, T_redirect, T_a>>),
     CommandText(<<W_dir, T_redirect, A_rooted>>),
     CommandText(<<W_set_content, W_Path, T_a, W_Value, A_hi_dq>>)}

\* CommandExecutor.__init__: no project directory, no session
Init ==
    /\ project_dir = None
    /\ cwd \in Cwds
    /\ powershell_process = 0
    /\ procs = << >>
    /\ files = InitFiles
    /\ dirs = InitDirs
    /\ pc = "idle"
    /\ rd = RdStart
    /\ last = [op |-> "none"]
    /\ batch = NoBatch
    /\ chat = ChatStart

Next ==
    \/ \E d \in Roots : set_project_dir(d) /\ UNCHANGED <<batch, chat>>
    \/ \E c \in ExecCommands : execute_command(c) /\ UNCHANGED <<batch, chat>>
    \/ read_line /\ UNCHANGED <<batch, chat>>
    \/ read_eof
    \/ process_exit /\ UNCHANGED <<batch, chat>>

Spec == Init /\ [][Next]_vars

\* the read loop is a running loop of the calling thread: a line that the
\* stream holds is read
SpecLive == Init /\ [][Next]_vars /\ WF_vars(read_line /\ UNCHANGED <<batch, chat>>)

(***************************************************************************)
(* execute_command on the commands echo X > P                              *)
(***************************************************************************)
X_gt == <<"a",">","b">>                                   \* a>b
X_gt_dq == <<DQ,"a",SP,">",SP,"b",DQ>>                    \* "a > b"
X_words == <<"a",SP,SQ,"b",SQ>>                           \* a 'b'
P_a_dq == <<DQ,"a",DQ>>                                   \* "a"

EchoTexts == {A_hi, A_hi_sq, A_hi_dq, X_words, X_gt, X_gt_dq, EmptyStr}
EchoTargets == {F_a, F_sub_b, P_a_dq, F_home_a}

\* the command echo X > P
EchoCommand(x, p) == V_echo \o <<SP>> \o x \o <<SP>> \o T_redirect \o <<SP>> \o p

Call_execute_command ==
    /\ last.op = "input"
    /\ execute_command(last.command)

InitEcho ==
    /\ project_dir \in Roots
    /\ cwd \in Cwds
    /\ powershell_process = 0
    /\ procs = << >>
    /\ files = InitFiles
    /\ dirs = InitDirs
    /\ pc = "idle"
    /\ rd = RdStart
    /\ last \in {[op |-> "input", command |-> EchoCommand(x, p)] :
                    x \in EchoTexts, p \in EchoTargets}
    /\ batch = NoBatch
    /\ chat = ChatStart

NextEcho == Call_execute_command /\ UNCHANGED <<batch, chat>>

SpecEcho == InitEcho /\ [][NextEcho]_vars

(***************************************************************************)
(* execute_command on sequences of Set-Content and Add-Content commands    *)
(***************************************************************************)
V_x == <<"x">>

AppendVerbs == {W_SetContent, W_AddContent}

\* the values: quoted texts and a here-string of two lines
AppendGivens ==
    {[path |-> p, kind |-> "quoted", text |-> v, lines |-> << >>] :
        p \in {F_a, F_sub_b}, v \in {C_hi, C_old, V_x, V_apos}}
    \cup {[path |-> p, kind |-> "here", text |-> EmptyStr, lines |-> <<L_1, C_hi>>] :
             p \in {F_a, F_sub_b}}

\* the command text: the verb in place of ContentCommand's Set-Content
AppendCommand(verb, given) == verb \o Drop(ContentCommand(given), Len(W_SetContent) + 1)

Call_content_command ==
    \E verb \in AppendVerbs, g \in AppendGivens : execute_command(AppendCommand(verb, g))

InitAppend ==
    /\ project_dir = RootProj
    /\ cwd \in Cwds
    /\ powershell_process = 0
    /\ procs = << >>
    /\ files = InitFiles
    /\ dirs = InitDirs
    /\ pc = "idle"
    /\ rd = RdStart
    /\ last = [op |-> "none"]
    /\ batch = NoBatch
    /\ chat = ChatStart

NextAppend == Call_content_command /\ UNCHANGED <<batch, chat>>

SpecAppend == InitAppend /\ [][NextAppend]_vars

(***************************************************************************)
(* The read loop on what the shell prints for forwarded commands           *)
(***************************************************************************)
L_y == <<"y">>
L_7 == <<"7">>
L_code_1 == <<"1">>

\* the lines a command prints itself
CommandLines == {<< >>, <<L_x>>, <<L_x, L_y>>, <<L_x, EmptyStr, L_y>>, <<L_7>>}

\* the line `$LASTEXITCODE;` prints: none as long as the variable is unset
ExitCodeLines == {<< >>, <<L_0>>, <<L_code_1>>}

\* the lines `$Error[0];` prints
ErrorLines == {<< >>, <<L_err>>, <<EmptyStr, L_err>>}

RawLines(lines) == [i \in 1..Len(lines) |-> RawLine(lines[i])]

\* lines 441-450: what the wrapped command makes the shell print
Transcript(lines, code, errors) ==
    <<RawLine(M_OUTPUT_START)>> \o RawLines(lines) \o RawLines(code)
        \o <<RawLine(M_OUTPUT_END), RawLine(M_ERROR_START)>>
        \o RawLines(errors) \o <<RawLine(M_ERROR_END)>>

Printings ==
    {[lines |-> l, code |-> c, errors |-> e, raw |-> Transcript(l, c, e)] :
        l \in CommandLines, c \in ExitCodeLines, e \in ErrorLines}

\* execute_command on a command that is forwarded to the session
Call_forward ==
    /\ pc = "idle"
    /\ forward(CommandText(<<W_dir>>), Printings)

InitRead ==
    /\ project_dir = RootProj
    /\ cwd \in Cwds
    /\ powershell_process = 0
    /\ procs = << >>
    /\ files = InitFiles
    /\ dirs = InitDirs
    /\ pc = "idle"
    /\ rd = RdStart
    /\ last = [op |-> "none"]
    /\ batch = NoBatch
    /\ chat = ChatStart

\* every transcript ends with the end marker of the error section, so the
\* loop never meets the end of the stream
NextRead ==
    \/ Call_forward /\ UNCHANGED <<batch, chat>>
    \/ read_line /\ UNCHANGED <<batch, chat>>
    \/ process_exit /\ UNCHANGED <<batch, chat>>

SpecRead == InitRead /\ [][NextRead]_vars

(***************************************************************************)
(* execute_commands on lists of up to MaxBatch descriptors                 *)
(***************************************************************************)
MaxBatch == 2

D_list == <<"list files">>
A_dir_padded == <<SP, "d", "i", "r", SP>>                 \* " dir "

BatchCommands ==
    {CommandText(<<W_dir>>),
     A_dir_padded,
     CommandText(<<W_format, A_Cdrive>>),
     CommandText(<<V_echo, A_hi, T_redirect, F_sub>>),
     CommandText(<<A_here_open, T_redirect, T_a>>),
     EmptyStr,
     Missing}

Descriptors ==
    {[command |-> c, description |-> d] : c \in BatchCommands, d \in {D_list, Missing}}

InitBatch ==
    /\ project_dir \in {None, RootProj}
    /\ cwd = RootProj
    /\ powershell_process = 0
    /\ procs = << >>
    /\ files = InitFiles
    /\ dirs = InitDirs
    /\ pc = "idle"
    /\ rd = RdStart
    /\ last = [op |-> "none"]
    /\ batch \in {BatchCalled(l) : l \in SeqsUpTo(Descriptors, MaxBatch)}
    /\ chat = ChatStart

NextBatch ==
    \/ execute_commands_next
    \/ execute_commands_append
    \/ execute_commands_return
    \/ read_line /\ UNCHANGED <<batch, chat>>
    \/ read_eof
    \/ process_exit /\ UNCHANGED <<batch, chat>>

SpecBatch == InitBatch /\ [][NextBatch]_vars

(***************************************************************************)
(* Properties of is_safe_command (checked under SpecClassify)              *)
(***************************************************************************)
Classified == last.op = "is_safe_command"

\* C7: without a root every command is rejected, `dir` included; with a root
\* the bare `dir` is accepted; `format` as first token, in any letter case,
\* is rejected with or without a root
C7_RootDirFormat ==
    Classified =>
        /\ ~RootSet => last.result = FALSE
        /\ (RootSet /\ last.command = W_dir) => last.result = TRUE
        /\ (last.tokens # << >> /\ last.tokens[1] \in {W_format, V_FORMAT, V_Format})
                => last.result = FALSE

C7_Witness ==
    /\ Classified /\ RootSet
    /\ last.tokens = <<V_Format, T_a>>
    /\ last.result = FALSE

\* C8: a command whose text holds `..` or `~` anywhere is rejected, whatever
\* its verb and the root
C8_DotsOrTildeRejected ==
    (Classified /\ (Contains(last.command, <<".", ".">>) \/ Contains(last.command, <<"~">>)))
        => last.result = FALSE

C8_Witness ==
    /\ Classified /\ RootSet
    /\ last.tokens = <<V_echo, T_tilde>>
    /\ last.result = FALSE

\* the argument count documented for a path verb as it is written
DeclaredCount(verb) == IF verb \in {W_move, W_ren, W_rename} THEN 2 ELSE 1

PathVerbs == safe_commands \cup {V_DIR, V_Type}

\* C9: for a path verb (dir only with an argument) in a command without `..`
\* and `~`: too few arguments are rejected, otherwise the result is the
\* conjunction of is_path_in_project over the declared number of leading
\* arguments as written, quotes stripped
C9_PathVerbArguments ==
    (/\ Classified
     /\ last.tokens # << >>
     /\ last.tokens[1] \in PathVerbs
     /\ last.tokens[1] \in {W_dir, V_DIR} => Len(last.tokens) > 1
     /\ ~Contains(last.command, <<".", ".">>)
     /\ ~Contains(last.command, <<"~">>))
        => LET n == DeclaredCount(last.tokens[1]) IN
           IF Len(last.tokens) - 1 < n
           THEN last.result = FALSE
           ELSE last.result =
                   (\A i \in 1..n : is_path_in_project(StripQuotes(last.tokens[i + 1])))

C9_Witness ==
    /\ Classified /\ RootSet
    /\ last.tokens = <<W_move, T_a, T_quoted_inside>>
    /\ last.result = TRUE

\* C20: in a command that is_safe_command accepts, whatever its verb and
\* the number of its arguments, every token holding a colon passes
\* is_path_in_project once its surrounding quotes are stripped
C20_ColonTokensInProject ==
    (Classified /\ last.result = TRUE)
        => \A k \in 1..Len(last.tokens) :
              Contains(last.tokens[k], <<":">>)
                  => is_path_in_project(StripQuotes(last.tokens[k]))

\* a command of a content verb that the rules before the -Path rule let pass
ContentVerbClassified ==
    /\ Classified /\ RootSet
    /\ last.tokens # << >>
    /\ Lower(last.tokens[1]) \in {W_add_content, W_set_content, W_new_item}
    /\ ~Contains(last.command, <<".", ".">>)
    /\ ~Contains(last.command, <<"~">>)

\* the places of the words -Path that have a word after them
FlagPlaces(tokens) == {k \in 1..(Len(tokens) - 1) : tokens[k] = W_Path}

\* the value of the first -Path flag
FlagValue(tokens) ==
    tokens[(CHOOSE k \in FlagPlaces(tokens) : \A j \in FlagPlaces(tokens) : k <= j) + 1]

\* the verdict of the colon-token scan
ColonScan(tokens) ==
    \A k \in 1..Len(tokens) :
        Contains(tokens[k], <<":">>) => is_path_in_project(StripQuotes(tokens[k]))

\* C23: a command of add-content, set-content or new-item with a
\* -Path <value> flag is accepted only if is_path_in_project holds for the
\* value, quotes stripped; without the flag the result is the verdict of the
\* colon-token scan alone.
C23_PathFlagStage ==
    ContentVerbClassified
        => IF FlagPlaces(last.tokens) # {}
           THEN last.result => is_path_in_project(StripQuotes(FlagValue(last.tokens)))
           ELSE last.result = ColonScan(last.tokens)

(***************************************************************************)
(* Properties of the safe file operations (checked under SpecFileOps)      *)
(***************************************************************************)
FileOpDone == last.op \in {"safe_write_file", "safe_read_file", "safe_copy_file"}

ErrorValue ==
    IF last.op = "safe_read_file" THEN last.value = None ELSE last.value = FALSE

\* C1: an operation on a path that fails is_path_in_project (either endpoint
\* of a copy) returns its error value with a message and leaves the
\* filesystem as it was: no file created or overwritten, no directory created
C1_OutsidePathsUntouched ==
    (FileOpDone /\ \E i \in 1..Len(last.paths) : ~is_path_in_project(last.paths[i]))
        => /\ ErrorValue
           /\ last.error \in {OutsideMsg, OutsideCopyMsg}
           /\ files = InitFiles
           /\ dirs = InitDirs
           /\ last.opened = {}

C1_Witness ==
    /\ last.op = "safe_write_file" /\ RootSet
    /\ last.paths = <<F_home_a>> /\ last.content = C_hi
    /\ last.value = FALSE
    /\ files[LocFrom(F_home_a, cwd)] = C_secret

IsRelative(p) == splitdrive(p)[1] = EmptyStr /\ ~isabs(p)

\* the place the confinement check looked at: the path joined to the root
CheckedLoc(p) == LocFrom(join(project_dir, p), cwd)

\* C2: for accepted relative paths the file opened is the one at the root
\* joined with the path, wherever the process's working directory is, and
\* no opened file lies outside the root
C2_OpensWhatWasChecked ==
    (/\ FileOpDone /\ RootSet
     /\ \A i \in 1..Len(last.paths) :
            IsRelative(last.paths[i]) /\ is_path_in_project(last.paths[i]))
        => /\ \A l \in last.opened :
                 \/ \E i \in 1..Len(last.paths) : l = CheckedLoc(last.paths[i])
                 \/ last.op = "safe_copy_file" /\ ParentLoc(l) = CheckedLoc(last.paths[2])
           /\ \A l \in last.opened : AtOrBelow(l, abspath(project_dir, cwd))
           /\ \A l \in (DOMAIN files) \ (DOMAIN InitFiles) : AtOrBelow(l, abspath(project_dir, cwd))
           /\ \A l \in DOMAIN InitFiles :
                 files[l] # InitFiles[l] => AtOrBelow(l, abspath(project_dir, cwd))

(***************************************************************************)
(* Properties of execute_command (checked under Spec)                      *)
(***************************************************************************)
ExecReturned == last.op = "execute_command" /\ last.status = "returned"

\* a step that is a call of execute_command (the read loop runs with
\* pc = "reading" and set_project_dir leaves another record)
ExecCallStep == pc = "idle" /\ last' # last /\ last'.op = "execute_command"

\* C3: whenever is_safe_command rejects a command, execute_command returns
\* (None, None, False) and changes nothing: no shell process is started,
\* nothing is written to a session's input (no output of the shell is
\* awaited), no file or directory is written, and project_dir and the
\* session handle are what they were.
C3_RejectedHasNoEffect ==
    [][(ExecCallStep /\ ~is_safe_command(last'.command))
         => /\ last'.status = "returned"
            /\ last'.stdout = None
            /\ last'.stderr = None
            /\ last'.is_safe = FALSE
            /\ last'.opened = {}
            /\ pc' = "idle"
            /\ UNCHANGED <<project_dir, powershell_process, procs, cwd, files, dirs>>]_vars

\* a command was rejected while a session was running and a root was set
C3_Witness ==
    /\ ExecReturned
    /\ last.route = "rejected"
    /\ ~is_safe_command(last.command)
    /\ project_dir # None
    /\ powershell_process # 0
    /\ procs[powershell_process].state = "running"

\* C10: every command the classifier accepts returns is_safe = TRUE, also
\* when its direct file write or its shell command fails; is_safe = FALSE
\* is returned only for a command the classifier rejected (the route
\* "rejected" is taken exactly then), and then stdout and stderr are None.
C10_AcceptedReturnsSafe ==
    ExecReturned =>
        /\ last.is_safe = (last.route # "rejected")
        /\ last.route = "rejected" => (last.stdout = None /\ last.stderr = None)

\* a step that is a call of set_project_dir with an effect
SetDirStep == pc = "idle" /\ last' # last /\ last'.op = "set_project_dir"

\* C12: when set_project_dir returns while a session exists, the session's
\* process has been terminated and the handle cleared; no command is
\* written afterwards to a process that has ended (its pending output never
\* grows); and a command forwarded to the shell goes to the process behind
\* the handle, which runs in the current project directory and, when the
\* handle was clear, is newly started.
C12_RootChangeEndsSession ==
    [][/\ (SetDirStep /\ powershell_process # 0)
            => /\ procs'[powershell_process].state # "running"
               /\ powershell_process' = 0
       /\ SetDirStep => project_dir' = last'.directory
       /\ \A i \in 1..Len(procs) :
             procs[i].state # "running" =>
                 /\ procs'[i].state # "running"
                 /\ Len(procs'[i].out) <= Len(procs[i].out)
       /\ (ExecCallStep /\ last'.status = "reading")
            => /\ last'.wrote_to = powershell_process'
               /\ procs'[last'.wrote_to].state = "running"
               /\ procs'[last'.wrote_to].cwd = project_dir
               /\ powershell_process = 0 => last'.wrote_to = Len(procs) + 1]_vars

\* a command was forwarded to a second process, started in the new project
\* directory after set_project_dir ended the first one
C12_Witness ==
    /\ last.op = "execute_command" /\ last.route = "shell" /\ last.status = "reading"
    /\ Len(procs) = 2
    /\ last.wrote_to = 2
    /\ procs[1].state = "terminated"
    /\ procs[1].cwd # procs[2].cwd
    /\ procs[2].cwd = project_dir

\* the output the session's stream still holds has the end marker of the
\* error section among its lines
EndMarkerPending ==
    /\ powershell_process # 0
    /\ \E k \in 1..Len(procs[powershell_process].out) :
          RStripSet(procs[powershell_process].out[k], {SP, LF, "TAB"}) = M_ERROR_END

\* execute_command is in its read loop
Reading == pc = "reading" /\ last.op = "execute_command" /\ last.status = "reading"

\* execute_command has returned the tuple of the shell route
ShellReturned ==
    pc = "idle" /\ last.op = "execute_command" /\ last.route = "shell"
                /\ last.status = "returned"

\* C13: on the shell route execute_command returns if and only if the
\* stream delivers the line ===ERROR_END===: it leaves the read loop only
\* on reading that line, it does return once the stream holds it, and when
\* the stream does not hold it (the command hangs, or the process has
\* ended and the stream is at end of file) it stays in the loop for ever,
\* reporting nothing
C13_ReturnsIffEndMarker ==
    /\ [][(pc = "reading" /\ pc' # "reading")
            => /\ procs[powershell_process].out # << >>
               /\ RStripSet(Head(procs[powershell_process].out), {SP, LF, "TAB"})
                     = M_ERROR_END
               /\ last'.status = "returned"]_vars
    /\ (Reading /\ EndMarkerPending) ~> ShellReturned
    /\ []((Reading /\ ~EndMarkerPending) => [](Reading /\ last.stderr = None))

\* the process has ended without the end marker and the loop spins at end
\* of file
C13_Witness ==
    /\ pc = "reading"
    /\ last.op = "execute_command" /\ last.status = "reading"
    /\ procs[powershell_process].state = "exited"
    /\ procs[powershell_process].out = << >>

\* C14: execute_command never raises to its caller: every call ends by
\* returning its tuple, whatever failed on the way.
C14_NeverRaises ==
    last.op = "execute_command" => last.status # "raised"

(***************************************************************************)
(* Properties of the write/read round trip (checked under SpecRoundTrip)   *)
(***************************************************************************)
\* C15: for a path the confinement check accepts and any content, shorter
\* or longer than the chunk size, the write succeeds, the read that follows
\* returns (content, None) with the very same content, and for every chunk
\* size from 1 up the chunks written and the chunks read, joined in order,
\* are the content.
C15_WriteReadRoundTrip ==
    (last.op = "read_back" /\ is_path_in_project(last.path))
        => /\ last.success
           /\ last.value = last.content
           /\ last.error = None
           /\ \A size \in (1..MaxChunk) \cup {CHUNK_SIZE} :
                 /\ WrittenChunksOf(last.content, 0, size) = last.content
                 /\ ReadChunksOf(last.content, 0, size) = last.content

(***************************************************************************)
(* Properties of the content handlers (checked under SpecContent)          *)
(***************************************************************************)
ContentHandled == last.op \in {"handle_content_command", "handle_set_content"}

\* the command has the flag as one of its whitespace-separated words
HasFlag(command, flag) == \E k \in 1..Len(Split(command)) : Split(command)[k] = flag

\* C16: a command without a -Path flag or without a -Value flag gets
\* (False, None, error) from handle_content_command and from
\* handle_set_content, the error being one of the missing-flag messages, and
\* no file or directory is created or changed.
C16_MissingFlagWritesNothing ==
    (ContentHandled /\ (~HasFlag(last.command, W_Path) \/ ~HasFlag(last.command, W_Value)))
        => /\ last.success = FALSE
           /\ last.output = None
           /\ last.error \in {MissingPathMsg, MissingValueMsg,
                              SetMissingPathMsg, SetMissingValueMsg}
           /\ files = InitFiles
           /\ dirs = InitDirs

\* a value of one line without leading whitespace, backslash, @", "@ or """
PlainValue(v) ==
    /\ ~Contains(v, <<LF>>) /\ ~Contains(v, <<BSL>>)
    /\ LStripSet(v, {SP, LF, "TAB"}) = v
    /\ ~Contains(v, HereOpen) /\ ~Contains(v, HereClose) /\ ~Contains(v, TripleQuote)

\* C17: for Set-Content -Path P -Value "V" with P inside the project and V
\* such a plain value, each of the two handlers succeeds and the file it
\* wrote holds exactly V.
C17_QuotedValueWrittenExactly ==
    (/\ ContentHandled
     /\ last.given.kind = "quoted" /\ last.given.path # None
     /\ is_path_in_project(last.given.path)
     /\ PlainValue(last.given.text))
        => /\ last.success
           /\ last.opened # {}
           /\ \A l \in last.opened : files[l] = last.given.text

\* a here-string command for a path inside the project has been handled
HereHandled ==
    /\ ContentHandled
    /\ last.given.kind = "here" /\ last.given.path # None
    /\ is_path_in_project(last.given.path)

\* the lines of a text that are not empty, in order
NonEmptyLines(text) ==
    LET lines == SplitLines(text, EmptyStr, << >>)
    IN  SelectSeq(lines, LAMBDA l : l # EmptyStr)

\* the lines with their common indentation taken off
Dedented(lines) ==
    LET m == CHOOSE k \in {Indent(lines[i]) : i \in 1..Len(lines)} :
                 \A i \in 1..Len(lines) : k <= Indent(lines[i])
    IN  [i \in 1..Len(lines) |-> Drop(lines[i], m + 1)]

\* the lines the claim expects in the file
ExpectedLines ==
    IF EndsWith(Lower(last.given.path), DotPy)
    THEN Dedented(last.given.lines) ELSE last.given.lines

\* the written file read back as text
WrittenText(l) == text_read(files[l])

Pairs == Len(chat.message_history) \div 2

\* C19: whatever the sends did, the history holds at most maxlen = 20
\* entries, they are the entries of the latest messages sent in the order
\* sent (the oldest are the ones dropped), and once 10 messages have been
\* sent with a project directory set the length is exactly 20.
C19_HistoryBounded ==
    /\ Len(chat.message_history) <= maxlen
    /\ Len(chat.message_history) = 2 * Pairs
    /\ \A k \in 1..Pairs :
          /\ chat.message_history[2 * k - 1]
                = [role |-> "user", content |-> MessageText(chat.sent - Pairs + k)]
          /\ chat.message_history[2 * k].role = "assistant"
    /\ chat.sent >= 10 => Len(chat.message_history) = maxlen
    /\ chat.sent < 10 => Len(chat.message_history) = 2 * chat.sent

\* eleven messages sent, some answered and some failed: the first is gone
C19_Witness ==
    /\ chat.sent = 11
    /\ chat.client = <<ApiFails, JsonNoMessage>>
    /\ Len(chat.message_history) = maxlen
    /\ chat.message_history[1].content = MessageText(2)
    /\ chat.message_history[2].content = None
    /\ chat.message_history[maxlen].content = ErrorText

\* the target of a redirection: the text after the first `>`, blanks and
\* one pair of quotes around it removed
TargetOf(command) == Unquote(Strip(Drop(command, Find(command, <<">">>) + 1)))

\* an execute_command call on a command that redirects to a place the
\* confinement check refuses
RedirectsOutside ==
    /\ last.op = "execute_command"
    /\ Contains(last.command, <<">">>)
    /\ ~is_path_in_project(TargetOf(last.command))

\* C21: a command with `>` whose target fails is_path_in_project is never
\* written to the shell: execute_command rejects it or ends in a failed
\* direct write.
C21_OutsideRedirectNotForwarded ==
    RedirectsOutside
        => /\ last.wrote_to = 0
           /\ \/ last.route = "rejected"
              \/ last.route = "redirect" /\ last.status = "returned" /\ ~last.is_safe

\* the first word of the command, in lower case, is set-content or add-content
ContentVerbFirst(command) ==
    /\ Split(command) # << >>
    /\ Lower(Split(command)[1]) \in {W_set_content, W_add_content}

\* C22: a command the classifier accepts whose first word is set-content or
\* add-content, in any letter case, is handled by the content-command
\* interpreter and never written to the shell.
C22_ContentVerbHandledDirectly ==
    (/\ last.op = "execute_command"
     /\ last.route # "rejected"
     /\ ContentVerbFirst(last.command))
        => last.route = "content" /\ last.wrote_to = 0

\* the shell processes that are alive
Live == {i \in 1..Len(procs) : procs[i].state = "running"}

\* C25: in every state reached by construction, set_project_dir,
\* execute_command and processes ending by themselves, at most one shell
\* process is alive, it is the one the session handle refers to, and it was
\* started with the current project_dir as working directory.
C25_OneLiveSession ==
    /\ Cardinality(Live) <= 1
    /\ \A i \in Live : i = powershell_process /\ procs[i].cwd = project_dir

\* a second session, started after the root was changed, is alive while the
\* first one is not
C25_Witness ==
    /\ Len(procs) = 2
    /\ Live = {2} /\ powershell_process = 2
    /\ procs[1].state = "terminated"
    /\ procs[1].cwd # procs[2].cwd

\* C26: a forwarded command is written only to a session process that is
\* alive at the moment of the write: a process that has ended before the
\* write, even just after the liveness check, is replaced by a fresh one
\* bound to the current root, which receives the command.
C26_WrittenToLiveProcess ==
    [][(ExecCallStep /\ last'.route = "shell")
          => /\ last'.wrote_to # 0
             /\ last'.wrote_to = powershell_process'
             /\ procs'[powershell_process'].state = "running"
             /\ procs'[powershell_process'].cwd = project_dir]_vars

\* a call that went to the session has returned
ShellCallReturned ==
    /\ last.op = "execute_command"
    /\ last.route = "shell"
    /\ last.status = "returned"

NonEmpty(lines) == SelectSeq(lines, LAMBDA l : l # EmptyStr)

\* C27: for every forwarded command, the stdout returned holds, in order,
\* every non-empty line the command itself printed between the output
\* markers, only the exit-code line being removed (also when the shell
\* prints no exit-code line and when the command prints nothing), and stderr
\* is the in-order join of the lines between the error markers.
C27_StdoutIsCommandLines ==
    ShellCallReturned =>
        /\ last.stdout = JoinWith(NonEmpty(last.printed.lines), <<LF>>)
        /\ last.stderr = JoinWith(NonEmpty(last.printed.errors), <<LF>>)

\* what the read loop makes of a transcript read from its first line on
RECURSIVE read_all(_, _)
read_all(r, raw) ==
    IF raw = << >> THEN r
    ELSE LET line == RStripSet(Head(raw), {SP, LF, "TAB"})
         IN  IF is_break(line) THEN r ELSE read_all(read_step(r, line), Tail(raw))

\* C28: in a sequence of forwarded commands on one session, none printing a
\* line equal to a sentinel, each call consumes exactly the lines of its own
\* command: when it returns no unread line remains in the stream, and its
\* result is made of the lines its own command printed, none of an earlier
\* or later command.
C28_ConsumesOwnLines ==
    ShellCallReturned =>
        /\ procs[last.wrote_to].out = << >>
        /\ \E r \in {read_all(RdStart, last.printed.raw)} :
              /\ last.stdout = JoinWith(AllButLast(r.output), <<LF>>)
              /\ last.stderr = JoinWith(r.error, <<LF>>)

\* two commands of one list have gone to one session and printed different
\* lines
C28_Witness ==
    /\ ShellCallReturned
    /\ Len(procs) = 1
    /\ batch.phase = "next"
    /\ Len(batch.results) = 2
    /\ batch.results[1].stdout = L_x /\ batch.results[1].stderr = EmptyStr
    /\ batch.results[2].stdout = EmptyStr /\ batch.results[2].stderr = L_err
    /\ batch.results[1].is_safe /\ batch.results[2].is_safe

\* the lines of a text and those of them that are not blank
LinesOf(text) == SplitLines(text, EmptyStr, << >>)
NonBlank(lines) == {i \in 1..Len(lines) : Strip(lines[i]) # EmptyStr}
MinIndent(lines) ==
    CHOOSE m \in {Indent(lines[i]) : i \in NonBlank(lines)} :
        \A i \in NonBlank(lines) : m <= Indent(lines[i])

\* what the indentation step guarantees whatever it does to blank lines: the
\* lines stay as many, a content of blank lines only is kept, the non-blank
\* lines lose the first m characters, their least indentation becomes 0,
\* their relative indentation is kept, and a second application changes
\* nothing
Dedents(before, after) ==
    LET old == LinesOf(before)
        new == LinesOf(after)
    IN  /\ Len(new) = Len(old)
        /\ NonBlank(old) = {} => after = before
        /\ NonBlank(old) # {} =>
              /\ NonBlank(new) = NonBlank(old)
              /\ \A i \in NonBlank(old) : new[i] = Drop(old[i], MinIndent(old) + 1)
              /\ MinIndent(new) = 0
              /\ \A i, j \in NonBlank(old) :
                    Indent(new[i]) - Indent(new[j]) = Indent(old[i]) - Indent(old[j])
        /\ remove_common_indent(after) = after

TextGiven(given) ==
    IF given.kind = "here" THEN <<LF>> \o JoinWith(given.lines, <<LF>>) \o <<LF>>
    ELSE given.text

\* C30: an Add-Content command handled by execute_command replaces the
\* file's content: for one path and value Add-Content and Set-Content leave
\* the same files, whatever the file held before, and after any sequence of
\* content commands on a path the file holds the content of the last one
\* only.
C30_AddContentReplaces ==
    [][\A verb \in AppendVerbs, g \in AppendGivens :
          (ExecCallStep /\ last'.command = AppendCommand(verb, g)) =>
              /\ rejected(AppendCommand(W_AddContent, g))
                    = rejected(AppendCommand(W_SetContent, g))
              /\ ~rejected(AppendCommand(verb, g)) =>
                    \E r \in {handle_content_command(AppendCommand(W_SetContent, g))} :
                        /\ last'.route = "content"
                        /\ files' = r.files
                        /\ last'.is_safe = r.success
                        /\ last'.opened = r.opened
                        /\ r.success =>
                              \A l \in r.opened : text_read(files'[l]) = TextGiven(g)]_vars

\* Add-Content has written to the file that held C_old at the start, after
\* another content command had made the second file
C30_Witness ==
    /\ last.op = "execute_command"
    /\ last.command = AppendCommand(W_AddContent,
                          [path |-> F_a, kind |-> "quoted", text |-> C_hi, lines |-> << >>])
    /\ last.is_safe
    /\ last.opened = {LocFrom(F_a, RootProj)}
    /\ text_read(files[LocFrom(F_a, RootProj)]) = C_hi
    /\ LocFrom(F_sub_b, RootProj) \in DOMAIN files

(***************************************************************************)
(* Properties of echo X > P (checked under SpecEcho)                       *)
(***************************************************************************)
\* X with one pair of matching quotes around it removed
Unquoted(x) ==
    IF Len(x) >= 2 /\ x[1] = x[Len(x)] /\ x[1] \in {DQ, SQ}
    THEN SubSeq(x, 2, Len(x) - 1) ELSE x

\* C24: for echo X > P that the classifier accepts, P inside the root and
\* any text X, also one holding `>`: execute_command writes X, without the
\* quotes around it, to the file P, returns ('File written successfully',
\* None, True) and forwards nothing to the shell.
C24_EchoWritesText ==
    \A x \in EchoTexts, p \in EchoTargets :
        (/\ last.op = "execute_command" /\ last.command = EchoCommand(x, p)
         /\ is_safe_command(last.command)
         /\ is_path_in_project(Unquoted(p)))
            => /\ last.status = "returned" /\ last.wrote_to = 0
               /\ last.stdout = WrittenMsg /\ last.stderr = None /\ last.is_safe
               /\ last.opened = {OpenLoc(Unquoted(p))}
               /\ OpenLoc(Unquoted(p)) \in DOMAIN files
               /\ files[OpenLoc(Unquoted(p))] = Unquoted(x)

(***************************************************************************)
(* Properties of execute_commands (checked under SpecBatch)                *)
(***************************************************************************)
\* the descriptors that hold a command, in list order
RECURSIVE WithCommand(_)
WithCommand(l) ==
    IF l = << >> THEN << >>
    ELSE IF Strip(get(Head(l).command, EmptyStr)) # EmptyStr
         THEN <<Head(l)>> \o WithCommand(Tail(l))
         ELSE WithCommand(Tail(l))

\* C11: execute_commands never stops before the end of its list because a
\* command was unsafe or failed, and it returns one result for each
\* descriptor, in list order, carrying the descriptor's command and
\* description (read here for the descriptors that hold a command: the
\* command with its surrounding blanks removed, the default description for
\* a descriptor without one)
C11_OneResultPerDescriptor ==
    /\ batch.phase # "raised"
    /\ batch.phase = "returned" =>
          /\ Len(batch.results) = Len(WithCommand(batch.command_list))
          /\ \A k \in 1..Len(batch.results) :
                /\ batch.results[k].command
                     = Strip(WithCommand(batch.command_list)[k].command)
                /\ batch.results[k].description
                     = get(WithCommand(batch.command_list)[k].description, NoDescription)

====
